---- MODULE Spec2Model ----
(***************************************************************************)
(* Model of the datastore package: the record codec (entry.Encode,         *)
(* entry.Decode, entry.DecodeFromReader) and the segmented store Db        *)
(* (NewDb, processPuts, Put/PutInt64, Get/GetInt64, Close, periodicMerge,  *)
(* tryMergeSegments, performMerge).                                        *)
(*                                                                         *)
(* Strings are sequences of bytes, files are sequences of bytes, the       *)
(* directory is a function from file names to file contents.  Every        *)
(* section of code that runs under db.mu is one atomic action.             *)
(***************************************************************************)
EXTENDS Integers, Sequences, FiniteSets, TLC

\* ------------------------------------------------------------------------
\* Bounds of the model
\* ------------------------------------------------------------------------
\* total number of Put/PutInt64 calls in a behaviour
MaxPuts == 3
\* number of NewDb calls in a behaviour (the first one is Init)
MaxOpens == 2
\* number of client goroutines that may be inside Put/PutInt64 at once
NumClients == 2
\* MaxFileSize of the store, scaled down: a string record (15 bytes) and an
\* int64 record (22 bytes) fill a segment exactly, two string records fit
\* and two int64 records do not
MaxFileSize == 37

\* number of Put/PutInt64 calls in a behaviour of SpecCrash
MaxCrashPuts == 4

\* calls of Put / PutInt64 in a behaviour of SpecWriteFault
MaxFaultPuts == 4

\* calls of Put / PutInt64 in a behaviour of SpecCorrupt
MaxCorruptPuts == 2

\* the longest server list of the balancer
MaxServers == 3

\* POST requests in a behaviour of SpecHttp
MaxHttpPosts == 2

\* calls of Put / PutInt64 in a behaviour of SpecReaders
MaxReaderPuts == 3

\* calls of Put / PutInt64 in a behaviour of SpecAppendCrash
MaxAppendCrashPuts == 3

\* goroutines that call Close on one Db
NumClosers == 2

\* calls of Put / PutInt64 in a behaviour of SpecClose
MaxClosePuts == 2

\* calls of Put / PutInt64 in a behaviour of SpecAnySize
MaxAnySizePuts == 3

\* the servers the balancer is configured with
NumUpstreams == 2

\* the requests the balancer handles at the same time
MaxRequests == 3

\* number of Put/PutInt64 calls in a behaviour of SpecSegmentation
MaxRecords == 6

\* capacity of putCh
PutChCap == 100

DataTypeString == 0
DataTypeInt64 == 1

\* the keys and the values the clients use: "a", "b", "c"; "x"; -1
Keys == {<<97>>, <<98>>, <<99>>}
StringValues == {<<120>>}
IntValues == {-1}

\* ------------------------------------------------------------------------
\* Little-endian integers
\* ------------------------------------------------------------------------
\* binary.LittleEndian.PutUint32, for 0 <= n < 2^31
PutUint32(n) ==
    << n % 256, (n \div 256) % 256, (n \div 65536) % 256, (n \div 16777216) % 256 >>

\* binary.LittleEndian.Uint32.  The values of 2^30 and more are all taken as
\* 2^30: the code only adds lengths of a file to them and compares them with
\* lengths of a file, and these are far smaller.
Uint32(b) ==
    IF b[4] >= 64 THEN 1073741824
    ELSE b[1] + 256 * b[2] + 65536 * b[3] + 16777216 * b[4]

\* binary.Write(buf, LittleEndian, int64): two's complement, 8 bytes;
\* n is within 32 bits, bytes 5..8 are the sign extension
WriteInt64(n) ==
    [i \in 1..8 |->
        IF i = 1 THEN n % 256
        ELSE IF i = 2 THEN (n \div 256) % 256
        ELSE IF i = 3 THEN (n \div 65536) % 256
        ELSE IF i = 4 THEN (n \div 16777216) % 256
        ELSE IF n < 0 THEN 255 ELSE 0]

\* binary.Read(reader, LittleEndian, &int64) of 8 bytes whose value is
\* within 32 bits
ReadInt64(b) ==
    IF b[8] >= 128
    THEN -( (255 - b[1]) + 256 * (255 - b[2]) + 65536 * (255 - b[3])
            + 16777216 * (255 - b[4]) ) - 1
    ELSE b[1] + 256 * b[2] + 65536 * b[3] + 16777216 * b[4]

\* ------------------------------------------------------------------------
\* entry and its codec
\* ------------------------------------------------------------------------
\* the zero value entry{}
ZeroEntry == [key |-> << >>, value |-> << >>, valueInt |-> 0, dataType |-> 0]

StringEntry(k, v) == [key |-> k, value |-> v, valueInt |-> 0, dataType |-> DataTypeString]
Int64Entry(k, n) == [key |-> k, value |-> << >>, valueInt |-> n, dataType |-> DataTypeInt64]

\* an encoding whose total size counts four bytes more than are written
\* (mutant of Encode)
EncodeSizeFourMore(e) ==
    LET kl == Len(e.key)
        valueBytes == IF e.dataType = DataTypeString THEN e.value
                      ELSE WriteInt64(e.valueInt)
        vl == Len(valueBytes)
        size == 4 + 4 + 4 + kl + 1 + 4 + vl
    IN  PutUint32(size) \o PutUint32(kl) \o e.key \o << e.dataType >>
        \o PutUint32(vl) \o valueBytes

\* an encoding whose total size leaves out the size field itself (mutant of
\* Encode)
EncodeSizeOfBody(e) ==
    LET kl == Len(e.key)
        valueBytes == IF e.dataType = DataTypeString THEN e.value
                      ELSE WriteInt64(e.valueInt)
        vl == Len(valueBytes)
        size == 4 + kl + 1 + 4 + vl
    IN  PutUint32(size) \o PutUint32(kl) \o e.key \o << e.dataType >>
        \o PutUint32(vl) \o valueBytes

\* entry.Encode (the data type is one of the two known ones)
Encode(e) ==
    LET kl == Len(e.key)
        valueBytes == IF e.dataType = DataTypeString THEN e.value
                      ELSE WriteInt64(e.valueInt)
        vl == Len(valueBytes)
        size == 4 + 4 + kl + 1 + 4 + vl
    IN  PutUint32(size) \o PutUint32(kl) \o e.key \o << e.dataType >>
        \o PutUint32(vl) \o valueBytes

\* entry.Decode on the receiver e0; returns the error and the receiver
Decode(e0, input) ==
    IF Len(input) < 4 THEN [err |-> "short", e |-> e0]
    ELSE IF Len(input) < 8 THEN [err |-> "short", e |-> e0]
    ELSE
    LET kl == Uint32(SubSeq(input, 5, 8))
        keyEndOffset == 8 + kl
    IN  IF Len(input) < keyEndOffset + 1 THEN [err |-> "short", e |-> e0]
        ELSE
        LET e1 == [e0 EXCEPT !.key = SubSeq(input, 9, keyEndOffset),
                             !.dataType = input[keyEndOffset + 1]]
            vlOffset == keyEndOffset + 1
        IN  IF Len(input) < vlOffset + 4 THEN [err |-> "short", e |-> e1]
            ELSE
            LET vl == Uint32(SubSeq(input, vlOffset + 1, vlOffset + 4))
                valueOffset == vlOffset + 4
            IN  IF Len(input) < valueOffset + vl THEN [err |-> "short", e |-> e1]
                ELSE
                LET valueBytes == SubSeq(input, valueOffset + 1, valueOffset + vl)
                IN  IF e1.dataType = DataTypeString
                    THEN [err |-> "nil", e |-> [e1 EXCEPT !.value = valueBytes]]
                    ELSE IF e1.dataType = DataTypeInt64
                    THEN IF Len(valueBytes) # 8
                         THEN [err |-> "int64len", e |-> e1]
                         ELSE [err |-> "nil",
                               e |-> [e1 EXCEPT !.valueInt = ReadInt64(valueBytes)]]
                    ELSE [err |-> "unknowntype", e |-> e1]

\* entry.DecodeFromReader on a fresh entry; in is the unread rest of the
\* stream.  err is "nil", "EOF" (io.EOF itself), "wrapsEOF" (an error that
\* wraps io.EOF: io.ReadFull read no byte of the body), or another error.
DecodeFromReader(in) ==
    IF Len(in) < 4
    THEN [n |-> 0, err |-> "EOF", e |-> ZeroEntry]
    ELSE
    LET sizeBuf == SubSeq(in, 1, 4)
        entrySize == Uint32(sizeBuf)
    IN  IF entrySize <= 4
        THEN [n |-> 4, err |-> "size", e |-> ZeroEntry]
        ELSE IF Len(in) = 4
        THEN [n |-> 4, err |-> "wrapsEOF", e |-> ZeroEntry]
        ELSE IF Len(in) < entrySize
        THEN [n |-> 4, err |-> "wrapsUnexpectedEOF", e |-> ZeroEntry]
        ELSE
        LET decoded(d) ==
                IF d.err # "nil"
                THEN [n |-> entrySize, err |-> "decode", e |-> d.e]
                ELSE [n |-> entrySize, err |-> "nil", e |-> d.e]
        IN  decoded(Decode(ZeroEntry, SubSeq(in, 1, entrySize)))

\* errors.Is(err, io.EOF)
IsEOF(err) == err \in {"EOF", "wrapsEOF"}


\* ------------------------------------------------------------------------
\* Files and Go maps
\* ------------------------------------------------------------------------
\* filepath.Join(dir, "segment-<n>") and filepath.Join(dir, "segment-<n>.merged.tmp")
SegName(n) == << "segment", n >>
TmpName(n) == << "merged.tmp", n >>

\* m[k] = v and delete(m, k) on a Go map
MapSet(m, k, v) == [x \in DOMAIN m \cup {k} |-> IF x = k THEN v ELSE m[x]]
MapDel(m, k) == [x \in DOMAIN m \ {k} |-> m[x]]
EmptyMap == << >>

\* os.Remove of a name that may or may not exist
RemoveFile(d, name) == MapDel(d, name)

\* a sort in descending order (mutant of SortInts)
RECURSIVE SortIntsDescending(_)
SortIntsDescending(S) ==
    IF S = {} THEN << >>
    ELSE LET m == CHOOSE x \in S : \A y \in S : y <= x
         IN  << m >> \o SortIntsDescending(S \ {m})

\* sort.Ints of a set of ids
RECURSIVE SortInts(_)
SortInts(S) ==
    IF S = {} THEN << >>
    ELSE LET m == CHOOSE x \in S : \A y \in S : x <= y
         IN  << m >> \o SortInts(S \ {m})

\* file.ReadAt(buf of length size, offset) on a read handle h of file content f
ReadAt(h, f, size, offset) ==
    IF h # "open" THEN [err |-> "closed", data |-> << >>]
    ELSE IF offset + size > Len(f) THEN [err |-> "eof", data |-> << >>]
    ELSE [err |-> "nil", data |-> SubSeq(f, offset + 1, offset + size)]

\* ------------------------------------------------------------------------
\* State
\* ------------------------------------------------------------------------
VARIABLES
    disk,             \* the directory db.dir: file name -> bytes
    currentIndex,     \* db.currentIndex: key -> indexValue
    activeSegment,    \* db.activeSegment: "nil" or "open"
    activeSegmentID,  \* db.activeSegmentID
    segmentFiles,     \* db.segmentFiles: segment id -> "open" | "closed" handle
    putCh,            \* db.putCh: queue of putRequest
    doneCh,           \* db.doneCh is closed
    isMerging,        \* db.isMerging
    writerPc,         \* goroutine processPuts: "run" | "exited"
    mergePc,          \* callers of tryMergeSegments: "idle" | "merging" | "exited"
    closePc,          \* the call of Close: "none" | "sleep" | "done"
    opens,            \* number of NewDb calls so far
    history,          \* every Put/PutInt64 call so far, with its outcome
    snapshot,         \* what Get/GetInt64 answered when Close closed the files
    last,             \* the last step, if it was performMerge or NewDb: what
                      \* it started from
    crashed,          \* "no", or what has happened to the directory since
                      \* the last process had it open: the step at which that
                      \* process was killed, or "corrupt"
    codec,            \* the entry a codec function is applied to, and the result
    servers,          \* the balancer's server list: IsHealthy, ActiveConns
    requests,         \* the requests the balancer is handling, and their step
    reader,           \* a call of Get/GetInt64 in progress: its step and what
                      \* it has looked up
    closers           \* the calls of Close of SpecClose: the step of each

vars == << disk, currentIndex, activeSegment, activeSegmentID, segmentFiles,
           putCh, doneCh, isMerging, writerPc, mergePc, closePc, opens,
           history, snapshot, last, crashed, codec, servers, requests, reader,
           closers >>

\* the value of last after any other step
Quiet == [op |-> "-"]

\* the value of codec while no codec function is being applied
NoCodec == [phase |-> "none"]

\* the goroutines that call Close in SpecClose
Closers == 1..NumClosers

\* no call of Get / GetInt64 is in progress
NoReader == [pc |-> "idle"]

\* the balancer is not part of the behaviour: no server, no request
NoBalancer == servers = << >> /\ requests = << >>

\* the goroutines that call tryMergeSegments: periodicMerge and a direct caller
MergeCallers == {"periodic", "direct"}

\* the content a handle of segment segID reads from
FileOf(d, segID) == IF SegName(segID) \in DOMAIN d THEN d[SegName(segID)] ELSE << >>

\* ------------------------------------------------------------------------
\* NewDb
\* ------------------------------------------------------------------------
\* a scan that records the offset of the first record for every record
\* (mutant of loadIndexFromSegmentFile)
RECURSIVE loadIndexOffsetZero(_, _, _, _)
loadIndexOffsetZero(file, segID, currentOffset, index) ==
    LET record(r) ==
            IF r.err # "nil"
            THEN IF IsEOF(r.err) THEN [err |-> "nil", index |-> index]
                 ELSE [err |-> "decode", index |-> index]
            ELSE loadIndexOffsetZero(file, segID, currentOffset + r.n,
                     MapSet(index, r.e.key,
                            [segmentID |-> segID, offset |-> 0,
                             size |-> r.n, dataType |-> r.e.dataType]))
    IN  record(DecodeFromReader(SubSeq(file, currentOffset + 1, Len(file))))

\* a scan that keeps the entry a key already has (mutant of
\* loadIndexFromSegmentFile)
RECURSIVE loadIndexKeepsFirst(_, _, _, _)
loadIndexKeepsFirst(file, segID, currentOffset, index) ==
    LET record(r) ==
            IF r.err # "nil"
            THEN IF IsEOF(r.err) THEN [err |-> "nil", index |-> index]
                 ELSE [err |-> "decode", index |-> index]
            ELSE loadIndexKeepsFirst(file, segID, currentOffset + r.n,
                     IF r.e.key \in DOMAIN index THEN index
                     ELSE MapSet(index, r.e.key,
                                 [segmentID |-> segID, offset |-> currentOffset,
                                  size |-> r.n, dataType |-> r.e.dataType]))
    IN  record(DecodeFromReader(SubSeq(file, currentOffset + 1, Len(file))))

\* Db.loadIndexFromSegmentFile: the loop over the records of one file
RECURSIVE loadIndexFromSegmentFile(_, _, _, _)
loadIndexFromSegmentFile(file, segID, currentOffset, index) ==
    LET record(r) ==
            IF r.err # "nil"
            THEN IF IsEOF(r.err) THEN [err |-> "nil", index |-> index]
                 ELSE [err |-> "decode", index |-> index]
            ELSE loadIndexFromSegmentFile(file, segID, currentOffset + r.n,
                     MapSet(index, r.e.key,
                            [segmentID |-> segID, offset |-> currentOffset,
                             size |-> r.n, dataType |-> r.e.dataType]))
    IN  record(DecodeFromReader(SubSeq(file, currentOffset + 1, Len(file))))

\* a rotation that opens the new segment and truncates the one it seals
\* (mutant of setActiveSegment)
setActiveSegmentTruncates(d, files, segID) ==
    [disk |-> MapSet(MapSet(d, SegName(segID), << >>), SegName(segID - 1), << >>),
     activeSegment |-> "open", activeSegmentID |-> segID,
     segmentFiles |-> MapSet(files, segID, "open")]

\* Db.setActiveSegment without I/O errors, on the fields it touches
setActiveSegment(d, files, segID) ==
    LET filePath == SegName(segID)
        d1 == IF filePath \in DOMAIN d THEN d ELSE MapSet(d, filePath, << >>)
    IN  [disk |-> d1, activeSegment |-> "open", activeSegmentID |-> segID,
         segmentFiles |-> MapSet(files, segID, "open")]

\* Db.loadSegmentsAndBuildIndex: the loop over the sorted segment ids
RECURSIVE loadSegments(_, _, _, _)
loadSegments(d, segmentIDs, files, index) ==
    IF segmentIDs = << >> THEN [err |-> "nil", segmentFiles |-> files, index |-> index]
    ELSE LET segID == Head(segmentIDs)
             files1 == MapSet(files, segID, "open")
             loaded(r) ==
                 IF r.err # "nil"
                 THEN [err |-> r.err, segmentFiles |-> files1, index |-> r.index]
                 ELSE loadSegments(d, Tail(segmentIDs), files1, r.index)
         IN  loaded(loadIndexFromSegmentFile(d[SegName(segID)], segID, 0, index))

\* the last segment found becomes the active one again (mutant of
\* ActiveIDAfterLoad)
ActiveIDReusesLast(maxSegID) == IF maxSegID = -1 THEN 0 ELSE maxSegID

\* db.activeSegmentID = maxSegID + 1, and 0 when maxSegID == -1
ActiveIDAfterLoad(maxSegID) == IF maxSegID = -1 THEN 0 ELSE maxSegID + 1

\* Db.loadSegmentsAndBuildIndex on the directory content d
loadSegmentsAndBuildIndex(d) ==
    LET d1 == [x \in {y \in DOMAIN d : y[1] = "segment"} |-> d[x]]
        ids == {x[2] : x \in DOMAIN d1}
        segmentIDs == SortInts(ids)
        maxSegID == IF ids = {} THEN -1 ELSE CHOOSE x \in ids : \A y \in ids : y <= x
        activated(index, a) ==
            [err |-> "nil", disk |-> a.disk, currentIndex |-> index,
             activeSegment |-> a.activeSegment,
             activeSegmentID |-> a.activeSegmentID,
             segmentFiles |-> a.segmentFiles]
        loaded(r) ==
            IF r.err # "nil"
            THEN [err |-> r.err, disk |-> d1, currentIndex |-> r.index,
                  activeSegment |-> "nil", activeSegmentID |-> 0,
                  segmentFiles |-> EmptyMap]
            ELSE activated(r.index,
                           setActiveSegment(d1, r.segmentFiles,
                                            ActiveIDAfterLoad(maxSegID)))
    IN  loaded(loadSegments(d1, segmentIDs, EmptyMap, EmptyMap))

\* ------------------------------------------------------------------------
\* Get and GetInt64
\* ------------------------------------------------------------------------
\* a read without the check of the stored type (mutant of GetTyped)
GetUntyped(key, wantType) ==
    IF key \notin DOMAIN currentIndex THEN [err |-> "ErrNotFound", e |-> ZeroEntry]
    ELSE
    LET idxVal == currentIndex[key]
    IN  IF idxVal.segmentID \notin DOMAIN segmentFiles
        THEN [err |-> "internal", e |-> ZeroEntry]
        ELSE
        LET rd == ReadAt(segmentFiles[idxVal.segmentID],
                         FileOf(disk, idxVal.segmentID),
                         idxVal.size, idxVal.offset)
        IN  IF rd.err # "nil" THEN [err |-> "read", e |-> ZeroEntry]
            ELSE LET decoded(d) ==
                         IF d.err # "nil" THEN [err |-> "decode", e |-> ZeroEntry]
                         ELSE [err |-> "nil", e |-> d.e]
                 IN  decoded(Decode(ZeroEntry, rd.data))

\* the common body of Db.Get and Db.GetInt64 for the requested type
GetTyped(key, wantType) ==
    IF key \notin DOMAIN currentIndex THEN [err |-> "ErrNotFound", e |-> ZeroEntry]
    ELSE
    LET idxVal == currentIndex[key]
    IN  IF idxVal.segmentID \notin DOMAIN segmentFiles
        THEN [err |-> "internal", e |-> ZeroEntry]
        ELSE IF idxVal.dataType # wantType
        THEN [err |-> "ErrWrongType", e |-> ZeroEntry]
        ELSE
        LET rd == ReadAt(segmentFiles[idxVal.segmentID],
                         FileOf(disk, idxVal.segmentID),
                         idxVal.size, idxVal.offset)
        IN  IF rd.err # "nil" THEN [err |-> "read", e |-> ZeroEntry]
            ELSE LET decoded(d) ==
                         IF d.err # "nil" THEN [err |-> "decode", e |-> ZeroEntry]
                         ELSE [err |-> "nil", e |-> d.e]
                 IN  decoded(Decode(ZeroEntry, rd.data))

\* Db.Get: the error and the returned string
Get(key) ==
    LET answer(r) ==
            [err |-> r.err, value |-> IF r.err = "nil" THEN r.e.value ELSE << >>]
    IN  answer(GetTyped(key, DataTypeString))

\* Db.GetInt64: the error and the returned integer
GetInt64(key) ==
    LET answer(r) ==
            [err |-> r.err, value |-> IF r.err = "nil" THEN r.e.valueInt ELSE 0]
    IN  answer(GetTyped(key, DataTypeInt64))

\* the logical content of the store: what Get and GetInt64 answer for every key
Content == [k \in Keys |-> [str |-> Get(k), int |-> GetInt64(k)]]

\* ------------------------------------------------------------------------
\* Initial state: NewDb on an empty directory
\* ------------------------------------------------------------------------
InitDb ==
    \E r \in {loadSegmentsAndBuildIndex(EmptyMap)} :
        /\ disk = r.disk
        /\ currentIndex = r.currentIndex
        /\ activeSegment = r.activeSegment
        /\ activeSegmentID = r.activeSegmentID
        /\ segmentFiles = r.segmentFiles
        /\ putCh = << >>
        /\ doneCh = FALSE
        /\ isMerging = FALSE
        /\ writerPc = "run"
        /\ mergePc = [m \in MergeCallers |-> "idle"]
        /\ closePc = "none"
        /\ opens = 1
        /\ history = << >>
        /\ snapshot = << >>
        /\ last = Quiet
        /\ crashed = "no"
        /\ reader = NoReader
        /\ closers = [c \in Closers |-> "idle"]

Init == InitDb /\ codec = NoCodec /\ NoBalancer

\* ------------------------------------------------------------------------
\* Put and PutInt64
\* ------------------------------------------------------------------------
\* the history entry of a call that has not written anything: only its
\* outcome is kept
Outcome(status) == ZeroEntry @@ [status |-> status]

\* requests whose caller is still blocked on its reply channel
Pending == {i \in 1..Len(history) : history[i].status = "pending"}

\* a send that puts the request in front of the waiting ones (mutant of Send)
SendAtFront(ch, req) == << req >> \o ch

\* db.putCh <- req on the buffered channel
Send(ch, req) == Append(ch, req)

\* the select of Db.Put / Db.PutInt64 takes the case db.putCh <- req
Accept(e) ==
    /\ crashed = "no"
    /\ UNCHANGED << crashed, codec, servers, requests, reader, closers >>
    /\ Cardinality(Pending) < NumClients
    /\ Len(putCh) < PutChCap
    /\ putCh' = Send(putCh, [key |-> e.key, value |-> e.value,
                             valueInt |-> e.valueInt, dataType |-> e.dataType,
                             errCh |-> Len(history) + 1])
    /\ history' = Append(history, [key |-> e.key, value |-> e.value,
                                   valueInt |-> e.valueInt, dataType |-> e.dataType,
                                   status |-> "pending", afterDone |-> doneCh])
    /\ last' = Quiet
    /\ UNCHANGED << disk, currentIndex, activeSegment, activeSegmentID,
                    segmentFiles, doneCh, isMerging, writerPc, mergePc,
                    closePc, opens, snapshot >>

\* a call of Put / PutInt64 that gets its request onto the queue
Enqueue(e) == Len(history) < MaxPuts /\ Accept(e)

\* the select of Db.Put / Db.PutInt64 takes the case <-db.doneCh: the
\* request is dropped
ReturnClosed ==
    /\ crashed = "no"
    /\ UNCHANGED << crashed, codec, servers, requests, reader, closers >>
    /\ Len(history) < MaxPuts
    /\ Cardinality(Pending) < NumClients
    /\ doneCh
    /\ history' = Append(history, Outcome("closed"))
    /\ last' = Quiet
    /\ UNCHANGED << disk, currentIndex, activeSegment, activeSegmentID,
                    segmentFiles, putCh, doneCh, isMerging, writerPc, mergePc,
                    closePc, opens, snapshot >>

\* The store compares keys only for equality and all keys have the same
\* length, so behaviours that differ by a renaming of the keys are
\* equivalent: the clients take a key already in use or the first key not
\* in use.
KeysInUse == {history[i].key : i \in {j \in 1..Len(history) :
                                          history[j].status \in {"nil", "pending"}}}
PutKeys ==
    KeysInUse \cup {k \in Keys \ KeysInUse : \A k2 \in Keys \ KeysInUse : k[1] <= k2[1]}

Put(key, value) ==
    \/ Enqueue(StringEntry(key, value))
    \/ ReturnClosed

PutInt64(key, value) ==
    \/ Enqueue(Int64Entry(key, value))
    \/ ReturnClosed

\* ------------------------------------------------------------------------
\* The writer goroutine
\* ------------------------------------------------------------------------
\* a test that looks at the size of the segment only (mutant of
\* NeedsRotation)
NeedsRotationIgnoresRecord(currentOffset, recordSize) ==
    currentOffset > MaxFileSize /\ MaxFileSize > 0

\* a test that rotates already when the record fills the segment exactly
\* (mutant of NeedsRotation)
NeedsRotationAtLimit(currentOffset, recordSize) ==
    currentOffset + recordSize >= MaxFileSize /\ MaxFileSize > 0

\* currentOffset+recordSize > MaxFileSize && MaxFileSize > 0
NeedsRotation(currentOffset, recordSize) ==
    currentOffset + recordSize > MaxFileSize /\ MaxFileSize > 0

\* an index entry that names the segment that was active before the
\* rotation (mutant of IndexValueOfWrite)
IndexValueStaleSegment(segID, currentOffset, recordSize, dataType) ==
    [segmentID |-> activeSegmentID, offset |-> currentOffset, size |-> recordSize,
     dataType |-> dataType]

\* an entry that always names the start of the segment (mutant of
\* IndexValueOfWrite)
IndexValueAtStart(segID, currentOffset, recordSize, dataType) ==
    [segmentID |-> segID, offset |-> 0, size |-> recordSize,
     dataType |-> dataType]

\* the index entry processPuts installs after a write into the segment segID
IndexValueOfWrite(segID, currentOffset, recordSize, dataType) ==
    [segmentID |-> segID, offset |-> currentOffset, size |-> recordSize,
     dataType |-> dataType]

\* what the step of the writer leaves for the properties: the answer to a
\* call that started after the shutdown signal, and every answer that is an
\* error
WriterAnswer(req, err) ==
    IF history[req.errCh].afterDone \/ err # "nil"
    THEN [op |-> "processPuts", err |-> err,
          afterDone |-> history[req.errCh].afterDone]
    ELSE Quiet

\* the history entry of a call the writer has answered with nil
Acknowledged(h) ==
    [key |-> h.key, value |-> h.value, valueInt |-> h.valueInt,
     dataType |-> h.dataType, status |-> "nil"]

\* the I/O calls of one iteration of Db.processPuts that may fail: Stat of
\* the active segment, the two os.OpenFile calls of setActiveSegment, Stat of
\* the new active segment, Write
WriteFaults == {"stat", "openWrite", "openRead", "newStat", "write"}

\* the faults inside the rotation
RotationFaults == {"openWrite", "openRead", "newStat"}

\* a failed rotation that also forgets the read handles (mutant of
\* setActiveSegmentFails)
setActiveSegmentForgetsHandles(d, files, segID, fault) ==
    [disk |-> d, activeSegment |-> "nil", activeSegmentID |-> activeSegmentID,
     segmentFiles |-> EmptyMap]

\* Db.setActiveSegment when one of its os.OpenFile calls fails: the former
\* active handle is closed and set to nil first; a failed open for writing
\* leaves the id, a failed open for reading leaves the created file and the
\* new id
setActiveSegmentFails(d, files, segID, fault) ==
    LET filePath == SegName(segID)
        d1 == IF filePath \in DOMAIN d THEN d ELSE MapSet(d, filePath, << >>)
    IN  IF fault = "openWrite"
        THEN [disk |-> d, activeSegment |-> "nil",
              activeSegmentID |-> activeSegmentID, segmentFiles |-> files]
        ELSE [disk |-> d1, activeSegment |-> "nil", activeSegmentID |-> segID,
              segmentFiles |-> IF segID \in DOMAIN files
                               THEN MapSet(files, segID, "closed") ELSE files]

\* the numbers of bytes a failing Write of a record may have appended
PartialWrites(recordSize) == {0, 1, recordSize - 1}

\* one iteration of Db.processPuts that takes the case req := <-db.putCh;
\* fault is "none" or the I/O call that fails
processPutsStep(fault) ==
    /\ crashed = "no"
    /\ UNCHANGED << crashed, codec, servers, requests, reader, closers >>
    /\ writerPc = "run"
    /\ putCh # << >>
    /\ \E req \in {Head(putCh)} :
       \E encodedEntry \in {Encode([key |-> req.key, value |-> req.value,
                                    valueInt |-> req.valueInt,
                                    dataType |-> req.dataType])} :
       LET recordSize == Len(encodedEntry)
       IN  /\ putCh' = Tail(putCh)
           /\ IF activeSegment = "nil"
              THEN /\ fault = "none"
                   /\ history' = [history EXCEPT ![req.errCh] = Outcome("error")]
                   /\ last' = WriterAnswer(req, "nilSegment")
                   /\ UNCHANGED << disk, currentIndex, activeSegment,
                                   activeSegmentID, segmentFiles >>
              ELSE IF fault = "stat"
              THEN /\ history' = [history EXCEPT ![req.errCh] = Outcome("error")]
                   /\ last' = WriterAnswer(req, fault)
                   /\ UNCHANGED << disk, currentIndex, activeSegment,
                                   activeSegmentID, segmentFiles >>
              ELSE
              LET statSize == Len(disk[SegName(activeSegmentID)])
                  rotate == NeedsRotation(statSize, recordSize)
              IN  /\ fault \in RotationFaults => rotate
                  /\ \E a \in {IF ~rotate
                                THEN [disk |-> disk, activeSegment |-> activeSegment,
                                      activeSegmentID |-> activeSegmentID,
                                      segmentFiles |-> segmentFiles]
                                ELSE IF fault \in {"openWrite", "openRead"}
                                THEN setActiveSegmentFails(disk, segmentFiles,
                                         activeSegmentID + 1, fault)
                                ELSE setActiveSegment(disk, segmentFiles,
                                                      activeSegmentID + 1)} :
                     /\ activeSegment' = a.activeSegment
                     /\ activeSegmentID' = a.activeSegmentID
                     /\ segmentFiles' = a.segmentFiles
                     /\ IF fault \in RotationFaults
                        THEN /\ disk' = a.disk
                             /\ history' = [history EXCEPT
                                                ![req.errCh] = Outcome("error")]
                             /\ last' = WriterAnswer(req, fault)
                             /\ UNCHANGED currentIndex
                        ELSE IF fault = "write"
                        THEN /\ \E n \in PartialWrites(recordSize) :
                                   disk' = MapSet(a.disk, SegName(a.activeSegmentID),
                                               a.disk[SegName(a.activeSegmentID)]
                                                   \o SubSeq(encodedEntry, 1, n))
                             /\ history' = [history EXCEPT
                                                ![req.errCh] = Outcome("error")]
                             /\ last' = WriterAnswer(req, fault)
                             /\ UNCHANGED currentIndex
                        ELSE
                        \E currentOffset \in {Len(a.disk[SegName(a.activeSegmentID)])} :
                        /\ disk' = MapSet(a.disk, SegName(a.activeSegmentID),
                                          a.disk[SegName(a.activeSegmentID)]
                                              \o encodedEntry)
                        /\ currentIndex' = MapSet(currentIndex, req.key,
                                                  IndexValueOfWrite(a.activeSegmentID,
                                                      currentOffset, recordSize,
                                                      req.dataType))
                        /\ history' = [history EXCEPT
                                           ![req.errCh] = Acknowledged(history[req.errCh])]
                        /\ last' = WriterAnswer(req, "nil")
    /\ UNCHANGED << doneCh, isMerging, writerPc, mergePc, closePc, opens, snapshot >>

\* one iteration of Db.processPuts with every I/O call succeeding
processPuts == processPutsStep("none")

\* one iteration of Db.processPuts with one I/O call failing
processPutsFails == \E fault \in WriteFaults : processPutsStep(fault)

\* Db.processPuts takes the case <-db.doneCh and returns
processPutsExit ==
    /\ crashed = "no"
    /\ UNCHANGED << crashed, codec, servers, requests, reader, closers >>
    /\ writerPc = "run"
    /\ doneCh
    /\ writerPc' = "exited"
    /\ last' = Quiet
    /\ UNCHANGED << disk, currentIndex, activeSegment, activeSegmentID,
                    segmentFiles, putCh, doneCh, isMerging, mergePc, closePc,
                    opens, history, snapshot >>

\* ------------------------------------------------------------------------
\* Compaction
\* ------------------------------------------------------------------------

\* all segments with a read handle, the active one included (mutant of
\* SegmentsToMerge)
SegmentsWithActive == DOMAIN segmentFiles

\* the ids performMerge collects: all segments with a read handle but the active one
SegmentsToMerge == {segID \in DOMAIN segmentFiles : segID # activeSegmentID}

\* every key of the index, also those of the active segment (mutant of
\* KeysToMerge)
KeysOfIndex == DOMAIN currentIndex

\* the keys of the index whose entry lies in one of the segments to merge
KeysToMerge == {k \in DOMAIN currentIndex : currentIndex[k].segmentID \in SegmentsToMerge}

\* the orders in which "for key, idxVal := range db.currentIndex" may visit them
RangeOrders(S) ==
    {o \in [1..Cardinality(S) -> S] : \A i, j \in DOMAIN o : o[i] = o[j] => i = j}

\* the steps of performMerge at which an I/O call may fail
MergeFaults == {"create", "read", "write", "sync", "close", "removeOld", "rename", "open"}

\* a copy loop that records the offset after the copied record (mutant of
\* mergeLoop)
RECURSIVE mergeLoopOffsetAfter(_, _, _, _, _)
mergeLoopOffsetAfter(o, i, target, merged, newIndex) ==
    IF i > Len(o) THEN [err |-> "nil", merged |-> merged, newIndex |-> newIndex]
    ELSE
    LET key == o[i]
        idxVal == currentIndex[key]
        rd == ReadAt(segmentFiles[idxVal.segmentID], FileOf(disk, idxVal.segmentID),
                     idxVal.size, idxVal.offset)
    IN  IF rd.err # "nil"
        THEN [err |-> "read", merged |-> merged, newIndex |-> newIndex]
        ELSE mergeLoopOffsetAfter(o, i + 1, target, merged \o rd.data,
                       MapSet(newIndex, key,
                              [segmentID |-> target,
                               offset |-> Len(merged) + idxVal.size,
                               size |-> idxVal.size, dataType |-> idxVal.dataType]))

\* the copy loop of performMerge over the keys in the order o, from position i
RECURSIVE mergeLoop(_, _, _, _, _)
mergeLoop(o, i, target, merged, newIndex) ==
    IF i > Len(o) THEN [err |-> "nil", merged |-> merged, newIndex |-> newIndex]
    ELSE
    LET key == o[i]
        idxVal == currentIndex[key]
        rd == ReadAt(segmentFiles[idxVal.segmentID], FileOf(disk, idxVal.segmentID),
                     idxVal.size, idxVal.offset)
    IN  IF rd.err # "nil"
        THEN [err |-> "read", merged |-> merged, newIndex |-> newIndex]
        ELSE mergeLoop(o, i + 1, target, merged \o rd.data,
                       MapSet(newIndex, key,
                              [segmentID |-> target, offset |-> Len(merged),
                               size |-> idxVal.size, dataType |-> idxVal.dataType]))

\* the index is left as it was (mutant of SpliceIndex)
SpliceIndexSkipped(index, newIndex) == index

\* the loop "for key, val := range newIndexForMergedSegment"
SpliceIndex(index, newIndex) ==
    [k \in DOMAIN index \cup DOMAIN newIndex |->
        IF k \in DOMAIN newIndex THEN newIndex[k] ELSE index[k]]

\* a threshold of one segment (mutant of NothingToMerge)
NothingToMergeBelowOne(segmentsToMergeIDs) == Len(segmentsToMergeIDs) < 1

\* len(segmentsToMergeIDs) < 2: nothing to compact
NothingToMerge(segmentsToMergeIDs) == Len(segmentsToMergeIDs) < 2

\* the files of the merged segments are kept (mutant of RemoveSegments)
RemoveSegmentsSkipped(d, ids) == d

\* the final loop of performMerge, on the directory: the files of the merged
\* segments other than the target are removed
RemoveSegments(d, ids) == [x \in DOMAIN d \ {SegName(id) : id \in ids} |-> d[x]]

\* Db.performMerge with the range order o; fault is "none" or the step whose
\* I/O call fails.  Yields the error and the fields performMerge may change.
performMerge(o, fault) ==
    LET same == [disk |-> disk, currentIndex |-> currentIndex,
                 segmentFiles |-> segmentFiles]
        segmentsToMergeIDs == SortInts(SegmentsToMerge)
    IN  IF NothingToMerge(segmentsToMergeIDs)
        THEN [err |-> "nil", merged |-> FALSE] @@ same
        ELSE
        LET targetMergeSegmentID == segmentsToMergeIDs[1]
            tmp == TmpName(targetMergeSegmentID)
            final == SegName(targetMergeSegmentID)
            loop == mergeLoop(o, 1, targetMergeSegmentID, << >>, EmptyMap)
            \* the temp file is complete, synced and closed
            dTmp == MapSet(disk, tmp, loop.merged)
            closedTarget == MapSet(segmentFiles, targetMergeSegmentID, "closed")
            \* os.Remove(finalMergedFilePath)
            dRemoved == RemoveFile(dTmp, final)
            \* os.Rename(mergedFilePathTemp, finalMergedFilePath)
            dRenamed == MapSet(RemoveFile(dRemoved, tmp), final, dRemoved[tmp])
            others == SegmentsToMerge \ {targetMergeSegmentID}
        IN  IF fault = "create"
            THEN [err |-> "create", merged |-> FALSE] @@ same
            ELSE IF loop.err # "nil" \/ fault \in {"read", "write", "sync", "close"}
            THEN [err |-> IF loop.err # "nil" THEN loop.err ELSE fault,
                  merged |-> FALSE,
                  disk |-> RemoveFile(dTmp, tmp),
                  currentIndex |-> currentIndex,
                  segmentFiles |-> segmentFiles]
            ELSE IF fault = "removeOld"
            THEN [err |-> fault, merged |-> FALSE,
                  disk |-> RemoveFile(dTmp, tmp),
                  currentIndex |-> currentIndex,
                  segmentFiles |-> closedTarget]
            ELSE IF fault = "rename"
            THEN [err |-> fault, merged |-> FALSE,
                  disk |-> RemoveFile(dRemoved, tmp),
                  currentIndex |-> currentIndex,
                  segmentFiles |-> closedTarget]
            ELSE IF fault = "open"
            THEN [err |-> fault, merged |-> FALSE,
                  disk |-> dRenamed,
                  currentIndex |-> currentIndex,
                  segmentFiles |-> closedTarget]
            ELSE [err |-> "nil", merged |-> TRUE,
                  disk |-> RemoveSegments(dRenamed, others),
                  currentIndex |-> SpliceIndex(currentIndex, loop.newIndex),
                  segmentFiles |-> [id \in (DOMAIN segmentFiles \ others)
                                       |-> IF id = targetMergeSegmentID THEN "open"
                                           ELSE segmentFiles[id]]]

\* a gate that never closes (mutant of GateClosed)
GateAlwaysOpen == FALSE

\* the gate of Db.tryMergeSegments: TRUE when the call has to return at once
GateClosed == isMerging

\* Db.tryMergeSegments up to the call of performMerge: the gate is free
tryMergeSegments(m) ==
    /\ crashed = "no"
    /\ UNCHANGED << crashed, codec, servers, requests, reader, closers >>
    /\ mergePc[m] = "idle"
    /\ ~GateClosed
    /\ isMerging' = TRUE
    /\ mergePc' = [mergePc EXCEPT ![m] = "merging"]
    /\ last' = Quiet
    /\ UNCHANGED << disk, currentIndex, activeSegment, activeSegmentID,
                    segmentFiles, putCh, doneCh, writerPc, closePc, opens, history, snapshot >>

\* Db.tryMergeSegments while another call holds the gate: returns nil
tryMergeSegmentsBusy(m) ==
    /\ crashed = "no"
    /\ UNCHANGED << crashed, codec, servers, requests, reader, closers >>
    /\ mergePc[m] = "idle"
    /\ GateClosed
    /\ last' = Quiet
    /\ UNCHANGED << disk, currentIndex, activeSegment, activeSegmentID,
                    segmentFiles, putCh, doneCh, isMerging, writerPc, mergePc,
                    closePc, opens, history, snapshot >>

\* the range orders to consider for a fault: a failure before the rename
\* removes the temp file, so that the order of its records is not observable
\* and one order stands for all
OrdersFor(fault) ==
    IF fault \in {"none", "open"} THEN RangeOrders(KeysToMerge)
    ELSE {CHOOSE o \in RangeOrders(KeysToMerge) : TRUE}

\* the rest of Db.tryMergeSegments: performMerge under db.mu, then the
\* deferred release of the gate
MergeStep(m, fault) ==
    /\ crashed = "no"
    /\ UNCHANGED << crashed, codec, servers, requests, reader, closers >>
    /\ mergePc[m] = "merging"
    /\ fault \in {"read", "write"} => KeysToMerge # {}
    /\ \E o \in OrdersFor(fault) :
          \E r \in {performMerge(o, fault)} :
              /\ disk' = r.disk
              /\ currentIndex' = r.currentIndex
              /\ segmentFiles' = r.segmentFiles
              /\ last' = [op |-> "performMerge", err |-> r.err,
                          disk |-> disk, currentIndex |-> currentIndex,
                          segmentFiles |-> segmentFiles,
                          activeSegment |-> activeSegment,
                          activeSegmentID |-> activeSegmentID,
                          content |-> Content, sealed |-> SegmentsToMerge]
    /\ isMerging' = FALSE
    /\ mergePc' = [mergePc EXCEPT ![m] = "idle"]
    /\ UNCHANGED << activeSegment, activeSegmentID, putCh, doneCh, writerPc,
                    closePc, opens, history, snapshot >>

\* performMerge with every I/O call succeeding
Merge(m) == MergeStep(m, "none")

\* performMerge with one I/O call failing
MergeFails(m) ==
    /\ Cardinality(SegmentsToMerge) >= 2
    /\ \E fault \in MergeFaults : MergeStep(m, fault)

\* Db.periodicMerge takes the case <-db.doneCh and returns
periodicMergeExit ==
    /\ crashed = "no"
    /\ UNCHANGED << crashed, codec, servers, requests, reader, closers >>
    /\ mergePc["periodic"] = "idle"
    /\ doneCh
    /\ mergePc' = [mergePc EXCEPT !["periodic"] = "exited"]
    /\ last' = Quiet
    /\ UNCHANGED << disk, currentIndex, activeSegment, activeSegmentID,
                    segmentFiles, putCh, doneCh, isMerging, writerPc, closePc,
                    opens, history, snapshot >>

\* ------------------------------------------------------------------------
\* Close and reopen
\* ------------------------------------------------------------------------
\* Db.Close up to the sleep: the shutdown channel is closed
CloseSignal ==
    /\ crashed = "no"
    /\ UNCHANGED << crashed, codec, servers, requests, reader, closers >>
    /\ closePc = "none"
    /\ doneCh' = TRUE
    /\ closePc' = "sleep"
    /\ last' = Quiet
    /\ UNCHANGED << disk, currentIndex, activeSegment, activeSegmentID,
                    segmentFiles, putCh, isMerging, writerPc, mergePc, opens,
                    history, snapshot >>

\* a Close that returns without closing the handles (mutant of Close)
CloseKeepsHandles ==
    /\ crashed = "no"
    /\ closePc = "sleep"
    /\ closePc' = "done"
    /\ snapshot' = Content
    /\ last' = Quiet
    /\ UNCHANGED << disk, currentIndex, activeSegment, activeSegmentID,
                    segmentFiles, putCh, doneCh, isMerging, writerPc, mergePc,
                    opens, history, crashed, codec, servers, requests, reader, closers >>

\* Db.Close after the sleep: under db.mu all handles are closed
Close ==
    /\ crashed = "no"
    /\ UNCHANGED << crashed, codec, servers, requests, reader, closers >>
    /\ closePc = "sleep"
    /\ activeSegment' = "nil"
    /\ segmentFiles' = EmptyMap
    /\ closePc' = "done"
    /\ snapshot' = Content
    /\ last' = Quiet
    /\ UNCHANGED << disk, currentIndex, activeSegmentID, putCh, doneCh,
                    isMerging, writerPc, mergePc, opens, history >>

\* NewDb on the directory of a closed store: a new Db with new goroutines;
\* the callers still blocked on the closed Db stay behind
NewDb ==
    /\ closePc = "done" \/ crashed # "no"
    /\ UNCHANGED << codec, servers, requests, reader, closers >>
    /\ opens < MaxOpens
    /\ opens' = opens + 1
    /\ \E r \in {loadSegmentsAndBuildIndex(disk)} :
           /\ disk' = r.disk
           /\ last' = [op |-> "NewDb", err |-> r.err, after |-> crashed,
                       content |-> snapshot]
           /\ IF r.err # "nil"
              THEN \* return nil, err: there is no store
                   UNCHANGED << currentIndex, activeSegment, activeSegmentID,
                                segmentFiles, snapshot, putCh, doneCh, isMerging,
                                writerPc, mergePc, closePc, history, crashed >>
              ELSE /\ currentIndex' = r.currentIndex
                   /\ activeSegment' = r.activeSegment
                   /\ activeSegmentID' = r.activeSegmentID
                   /\ segmentFiles' = r.segmentFiles
                   /\ crashed' = "no"
                   /\ snapshot' = << >>
                   /\ putCh' = << >>
                   /\ doneCh' = FALSE
                   /\ isMerging' = FALSE
                   /\ writerPc' = "run"
                   /\ mergePc' = [m \in MergeCallers |-> "idle"]
                   /\ closePc' = "none"
                   /\ history' = [i \in 1..Len(history) |->
                                     IF history[i].status = "pending"
                                     THEN Outcome("abandoned")
                                     ELSE history[i]]

\* ------------------------------------------------------------------------
\* Damage to a segment file while the store is closed
\* ------------------------------------------------------------------------
\* the values a damaged byte may take: 0 and 4 (a total_size <= 4), 2 (an
\* unknown type), and one more than the byte was (lengths that disagree)
DamagedBytes(b) == {0, 2, 4, (b + 1) % 256} \ {b}

\* the bytes that may be damaged: the total size, the key length, the key,
\* the type and the value length of the first record of the file (the keys
\* have one byte)
DamagePositions(file) == {pos \in 1..Len(file) : pos <= 4 + 4 + 1 + 1 + 4}

\* the file with the byte at position pos replaced
SetByte(file, pos, b) == [i \in 1..Len(file) |-> IF i = pos THEN b ELSE file[i]]

\* a segment file of the closed store is cut short or has one byte changed;
\* loadIndexFromSegmentFile of the next NewDb reads what is left
Corrupt ==
    /\ crashed = "no"
    /\ closePc = "done"
    /\ opens < MaxOpens
    /\ crashed' = "corrupt"
    /\ \E name \in DOMAIN disk :
          \/ \E n \in 1..(Len(disk[name]) - 1) :
                 disk' = MapSet(disk, name, SubSeq(disk[name], 1, n))
          \/ \E pos \in DamagePositions(disk[name]) :
             \E b \in DamagedBytes(disk[name][pos]) :
                 disk' = MapSet(disk, name, SetByte(disk[name], pos, b))
    /\ last' = Quiet
    /\ UNCHANGED << currentIndex, activeSegment, activeSegmentID, segmentFiles,
                    putCh, doneCh, isMerging, writerPc, mergePc, closePc,
                    opens, history, snapshot, codec, servers, requests, reader, closers >>

\* ------------------------------------------------------------------------
\* Specifications
\* ------------------------------------------------------------------------
Next ==
    \/ \E k \in PutKeys, v \in StringValues : Put(k, v)
    \/ \E k \in PutKeys, n \in IntValues : PutInt64(k, n)
    \/ processPuts
    \/ processPutsExit
    \/ \E m \in MergeCallers : tryMergeSegments(m)
    \/ \E m \in MergeCallers : tryMergeSegmentsBusy(m)
    \/ \E m \in MergeCallers : Merge(m)
    \/ periodicMergeExit
    \/ CloseSignal
    \/ Close
    \/ NewDb

\* every I/O call succeeds
Spec == Init /\ [][Next]_vars

\* ------------------------------------------------------------------------
\* The process is killed during a compaction
\* ------------------------------------------------------------------------
\* the steps of performMerge after which the process may be killed: while
\* the temp file is written, after its Sync and Close, after the os.Remove
\* of the old target file, after the os.Rename, and after some of the
\* os.Remove calls of the final loop
PreSwapPoints == {"writing", "closed", "removedOld"}
PostSwapPoints == {"renamed", "removing"}
CrashPoints == PreSwapPoints \cup PostSwapPoints

\* the order in which the final loop of performMerge removes the files
RemovalOrder(segmentsToMergeIDs, target) ==
    SelectSeq(segmentsToMergeIDs, LAMBDA segID : segID # target)

\* the directory when the process is killed at the step point of a
\* performMerge with the range order o; removed is the number of files the
\* final loop has removed
DiskAtCrash(o, point, removed) ==
    LET segmentsToMergeIDs == SortInts(SegmentsToMerge)
        target == segmentsToMergeIDs[1]
        tmp == TmpName(target)
        final == SegName(target)
        at(merged) ==
            IF point = "writing"
            THEN MapSet(disk, tmp, SubSeq(merged, 1, Len(merged) - 1))
            ELSE IF point = "closed"
            THEN MapSet(disk, tmp, merged)
            ELSE IF point = "removedOld"
            THEN RemoveFile(MapSet(disk, tmp, merged), final)
            ELSE RemoveSegments(MapSet(disk, final, merged),
                                {RemovalOrder(segmentsToMergeIDs, target)[i] :
                                     i \in 1..removed})
    IN  at(mergeLoop(o, 1, target, << >>, EmptyMap).merged)

\* how many files the final loop may have removed at the step point: some
\* but not all of them at "removing"
RemovedAt(point) ==
    IF point = "removing" THEN 1..(Cardinality(SegmentsToMerge) - 2) ELSE {0}

\* the process is killed during the performMerge of the caller m: the
\* memory is lost and the directory stays as it is
Crash(m) ==
    /\ crashed = "no"
    /\ mergePc[m] = "merging"
    /\ ~NothingToMerge(SortInts(SegmentsToMerge))
    /\ \E point \in CrashPoints :
       \E o \in (IF point \in PostSwapPoints THEN RangeOrders(KeysToMerge)
                  ELSE {CHOOSE o \in RangeOrders(KeysToMerge) : TRUE}) :
       \E removed \in RemovedAt(point) :
          /\ disk' = DiskAtCrash(o, point, removed)
          /\ crashed' = point
    /\ snapshot' = Content
    /\ last' = Quiet
    /\ UNCHANGED << currentIndex, activeSegment, activeSegmentID, segmentFiles,
                    putCh, doneCh, isMerging, writerPc, mergePc, closePc,
                    opens, history, codec, servers, requests, reader, closers >>

\* a call of Put / PutInt64 in a behaviour of SpecCrash
CrashPut(e) == Len(history) < MaxCrashPuts /\ Accept(e)

\* writes and compactions, a kill during a compaction, and NewDb on the
\* directory the killed process has left
NextCrash ==
    \/ \E k \in PutKeys, v \in StringValues : CrashPut(StringEntry(k, v))
    \/ \E k \in PutKeys, n \in IntValues : CrashPut(Int64Entry(k, n))
    \/ processPuts
    \/ \E m \in MergeCallers : tryMergeSegments(m)
    \/ \E m \in MergeCallers : Merge(m)
    \/ \E m \in MergeCallers : Crash(m)
    \/ NewDb

SpecCrash == Init /\ [][NextCrash]_vars

\* a call of Put / PutInt64 on a store that is only written to, with a
\* record of the size of the records written before
SameSizePut(e) ==
    /\ Len(history) < MaxRecords
    /\ \A i \in 1..Len(history) : history[i].dataType = e.dataType
    /\ Accept(e)

\* a freshly created store that is only written to, with records of one
\* size: no compaction, no Close
NextSegmentation ==
    \/ \E k \in PutKeys, v \in StringValues : SameSizePut(StringEntry(k, v))
    \/ \E k \in PutKeys, n \in IntValues : SameSizePut(Int64Entry(k, n))
    \/ processPuts

SpecSegmentation == Init /\ [][NextSegmentation]_vars

\* a call of Put / PutInt64 in a behaviour of SpecWriteFault
WriteFaultPut(e) == Len(history) < MaxFaultPuts /\ Accept(e)

\* writes on an open store whose file operations may fail
NextWriteFault ==
    \/ \E k \in PutKeys, v \in StringValues : WriteFaultPut(StringEntry(k, v))
    \/ \E k \in PutKeys, n \in IntValues : WriteFaultPut(Int64Entry(k, n))
    \/ processPuts
    \/ processPutsFails

SpecWriteFault == Init /\ [][NextWriteFault]_vars

\* a call of Put / PutInt64 in a behaviour of SpecCorrupt
CorruptPut(e) == Len(history) < MaxCorruptPuts /\ Accept(e)

\* writes, Close, damage to a file of the closed store, and NewDb on the
\* damaged directory
NextCorrupt ==
    \/ \E k \in PutKeys, v \in StringValues : CorruptPut(StringEntry(k, v))
    \/ \E k \in PutKeys, n \in IntValues : CorruptPut(Int64Entry(k, n))
    \/ processPuts
    \/ CloseSignal
    \/ Close
    \/ Corrupt
    \/ NewDb

SpecCorrupt == Init /\ [][NextCorrupt]_vars

\* ------------------------------------------------------------------------
\* The codec on its own
\* ------------------------------------------------------------------------
\* the keys, strings and int64 values of the records the codec is applied
\* to: "", "a", "ab"; "", "x", "xy"; values within 32 bits with every byte
\* pattern of the sign extension
CodecKeys == {<< >>, <<97>>, <<97, 98>>}
CodecStrings == {<< >>, <<120>>, <<120, 121>>}
CodecInts == {0, 1, -1, 255, 256, -256, 65536, -65537, 16777216, 2147483647,
              -2147483647}

\* the records the codec is applied to
CodecEntries ==
    {StringEntry(k, v) : k \in CodecKeys, v \in CodecStrings}
        \cup {Int64Entry(k, n) : k \in CodecKeys, n \in CodecInts}

\* a freshly created store and a record to encode
InitCodec ==
    /\ InitDb
    /\ codec \in {[phase |-> "entry", e |-> e] : e \in CodecEntries}
    /\ NoBalancer

\* encoded := e.Encode()
CodecEncode ==
    /\ codec.phase = "entry"
    /\ codec' = [phase |-> "encoded", e |-> codec.e, encoded |-> Encode(codec.e)]
    /\ UNCHANGED << disk, currentIndex, activeSegment, activeSegmentID,
                    segmentFiles, putCh, doneCh, isMerging, writerPc, mergePc,
                    closePc, opens, history, snapshot, last, crashed, servers,
                    requests, reader, closers >>

\* decodedEntry.Decode(encoded) on a zero entry
CodecDecode ==
    /\ codec.phase = "encoded"
    /\ \E d \in {Decode(ZeroEntry, codec.encoded)} :
           codec' = [phase |-> "decoded", e |-> codec.e, encoded |-> codec.encoded,
                     err |-> d.err, decodedEntry |-> d.e]
    /\ UNCHANGED << disk, currentIndex, activeSegment, activeSegmentID,
                    segmentFiles, putCh, doneCh, isMerging, writerPc, mergePc,
                    closePc, opens, history, snapshot, last, crashed, servers,
                    requests, reader, closers >>

\* decodedEntry.DecodeFromReader(reader) on a reader over the encoded bytes;
\* unread is what the reader has left after the bytes the call has consumed
\* (the size prefix, and the body when io.ReadFull has read it)
CodecDecodeFromReader ==
    /\ codec.phase = "encoded"
    /\ \E r \in {DecodeFromReader(codec.encoded)} :
           codec' = [phase |-> "read", e |-> codec.e, encoded |-> codec.encoded,
                     err |-> r.err, decodedEntry |-> r.e, bytesRead |-> r.n,
                     unread |-> SubSeq(codec.encoded, r.n + 1, Len(codec.encoded))]
    /\ UNCHANGED << disk, currentIndex, activeSegment, activeSegmentID,
                    segmentFiles, putCh, doneCh, isMerging, writerPc, mergePc,
                    closePc, opens, history, snapshot, last, crashed, servers,
                    requests, reader, closers >>

NextCodec == CodecEncode \/ CodecDecode \/ CodecDecodeFromReader

SpecCodec == InitCodec /\ [][NextCodec]_vars

\* ------------------------------------------------------------------------
\* The decoders on damaged input
\* ------------------------------------------------------------------------
\* what is left of an encoded record when the stream ends early: every
\* prefix of it, the empty one and the whole record included
Prefixes(encoded) == {SubSeq(encoded, 1, n) : n \in 0..Len(encoded)}

\* an encoded record with one byte of its size, key length, key, type or
\* value length changed
Damaged(encoded) ==
    {SetByte(encoded, pos, b) :
         pos \in DamagePositions(encoded), b \in {0, 2, 4, 8}}

\* the inputs the decoders are applied to
DamagedInputs ==
    UNION {Prefixes(Encode(e)) \cup Damaged(Encode(e)) : e \in CodecEntries}

\* a freshly created store and an input for a decoder
InitStream ==
    /\ InitDb
    /\ codec \in {[phase |-> "input", in |-> in] : in \in DamagedInputs}
    /\ NoBalancer

\* record.DecodeFromReader(reader) on a reader over the input
StreamDecodeFromReader ==
    /\ codec.phase = "input"
    /\ \E r \in {DecodeFromReader(codec.in)} :
           codec' = [phase |-> "read", in |-> codec.in, err |-> r.err,
                     bytesRead |-> r.n, decodedEntry |-> r.e]
    /\ UNCHANGED << disk, currentIndex, activeSegment, activeSegmentID,
                    segmentFiles, putCh, doneCh, isMerging, writerPc, mergePc,
                    closePc, opens, history, snapshot, last, crashed, servers,
                    requests, reader, closers >>

\* e.Decode(input) on a zero entry
StreamDecode ==
    /\ codec.phase = "input"
    /\ \E d \in {Decode(ZeroEntry, codec.in)} :
           codec' = [phase |-> "decoded", in |-> codec.in, err |-> d.err,
                     decodedEntry |-> d.e]
    /\ UNCHANGED << disk, currentIndex, activeSegment, activeSegmentID,
                    segmentFiles, putCh, doneCh, isMerging, writerPc, mergePc,
                    closePc, opens, history, snapshot, last, crashed, servers,
                    requests, reader, closers >>

NextStream == StreamDecodeFromReader \/ StreamDecode

SpecStream == InitStream /\ [][NextStream]_vars

\* ------------------------------------------------------------------------
\* The balancer: selection
\* ------------------------------------------------------------------------
\* the variables of the store and of the codec, which the balancer leaves
\* alone
storeVars == << disk, currentIndex, activeSegment, activeSegmentID,
                segmentFiles, putCh, doneCh, isMerging, writerPc, mergePc,
                closePc, opens, history, snapshot, crashed, codec, reader,
                closers >>

\* newTestServer(url, isHealthy, connections); the position in the list
\* stands for the URL
Server(isHealthy, connections) ==
    [IsHealthy |-> isHealthy, ActiveConns |-> connections]

\* the connection counts of the servers of the tests
TestConns == {0, 2, 3, 5, 10}

\* the server lists of up to MaxServers servers
ServerLists ==
    UNION {[1..n -> {Server(h, c) : h \in BOOLEAN, c \in TestConns}] :
               n \in 0..MaxServers}

\* a scan that lets a later server with the same count replace the one found
\* (mutant of selectLeastLoadedServer)
RECURSIVE scanLastOnTie(_, _, _)
scanLastOnTie(list, i, best) ==
    IF i > Len(list) THEN best
    ELSE IF list[i].IsHealthy
            /\ (best = 0 \/ list[i].ActiveConns <= list[best].ActiveConns)
    THEN scanLastOnTie(list, i + 1, i)
    ELSE scanLastOnTie(list, i + 1, best)

selectLastOnTie(list) == scanLastOnTie(list, 1, 0)

\* the scan of selectLeastLoadedServer from position i on; best is the
\* position of the server found so far, 0 for none
RECURSIVE scanServers(_, _, _)
scanServers(list, i, best) ==
    IF i > Len(list) THEN best
    ELSE IF list[i].IsHealthy
            /\ (best = 0 \/ list[i].ActiveConns < list[best].ActiveConns)
    THEN scanServers(list, i + 1, i)
    ELSE scanServers(list, i + 1, best)

\* selectLeastLoadedServer on the server list: the position of the selected
\* server, 0 for nil
selectLeastLoadedServer(list) == scanServers(list, 1, 0)

\* a server list as a test sets it up
InitSelect ==
    /\ InitDb
    /\ codec = NoCodec
    /\ servers \in ServerLists
    /\ requests = << >>

\* selected := selectLeastLoadedServer()
Select ==
    /\ last = Quiet
    /\ last' = [op |-> "selectLeastLoadedServer",
                selected |-> selectLeastLoadedServer(servers)]
    /\ UNCHANGED << storeVars, servers, requests >>

NextSelect == Select

SpecSelect == InitSelect /\ [][NextSelect]_vars

\* ------------------------------------------------------------------------
\* The balancer: dispatch and health probing
\* ------------------------------------------------------------------------
\* the requests the balancer handles at the same time
Requests == 1..MaxRequests

\* a request the balancer is not handling, or has answered
NoRequest == [pc |-> "idle", server |-> 0]

\* the outcomes of a probe: the status of the response to GET /health, or a
\* transport error
ProbeOutcomes == {"200", "404", "500", "transport error"}

\* every response marks the server healthy (mutant of HealthOf)
HealthOfAnyResponse(outcome) == outcome # "transport error"

\* a 200 marks healthy, anything else marks unhealthy
HealthOf(outcome) == outcome = "200"

\* the counter is left as it is (mutant of Decrement)
DecrementSkipped(list, i) == list

\* the atomic increment and decrement of the ActiveConns of server i
Increment(list, i) ==
    [list EXCEPT ![i].ActiveConns = list[i].ActiveConns + 1]
Decrement(list, i) ==
    [list EXCEPT ![i].ActiveConns = list[i].ActiveConns - 1]

\* the configured servers, as the balancer starts: healthy, no connection
InitBalancer ==
    /\ InitDb
    /\ codec = NoCodec
    /\ servers = [i \in 1..NumUpstreams |-> Server(TRUE, 0)]
    /\ requests = [r \in Requests |-> NoRequest]

\* step 1 of the dispatch of request r: a server is selected
DispatchSelect(r) ==
    /\ requests[r].pc = "idle"
    /\ selectLeastLoadedServer(servers) # 0
    /\ requests' = [requests EXCEPT ![r] =
                        [pc |-> "selected",
                         server |-> selectLeastLoadedServer(servers)]]
    /\ last' = [op |-> "select", server |-> requests'[r].server,
                wasHealthy |-> servers[requests'[r].server].IsHealthy]
    /\ UNCHANGED << storeVars, servers >>

\* step 1 of the dispatch of request r when no server is healthy: the 503
DispatchUnavailable(r) ==
    /\ requests[r].pc = "idle"
    /\ selectLeastLoadedServer(servers) = 0
    /\ last' = [op |-> "503", servers |-> servers]
    /\ UNCHANGED << storeVars, servers, requests >>

\* step 2: the counter of the selected server is incremented, then the
\* request is forwarded
DispatchForward(r) ==
    /\ requests[r].pc = "selected"
    /\ servers' = Increment(servers, requests[r].server)
    /\ requests' = [requests EXCEPT ![r].pc = "forwarding"]
    /\ last' = Quiet
    /\ UNCHANGED storeVars

\* step 5: the response has been written or the request has failed; the
\* counter is decremented
DispatchDone(r) ==
    /\ requests[r].pc = "forwarding"
    /\ servers' = Decrement(servers, requests[r].server)
    /\ requests' = [requests EXCEPT ![r] = NoRequest]
    /\ last' = Quiet
    /\ UNCHANGED storeVars

\* the health task probes server i and sets its flag
Probe(i) ==
    /\ \E outcome \in ProbeOutcomes :
          /\ servers' = [servers EXCEPT ![i].IsHealthy = HealthOf(outcome)]
          /\ last' = [op |-> "probe", server |-> i, outcome |-> outcome,
                      wasHealthy |-> servers[i].IsHealthy]
    /\ UNCHANGED << storeVars, requests >>

NextBalancer ==
    \/ \E r \in Requests : DispatchSelect(r)
    \/ \E r \in Requests : DispatchUnavailable(r)
    \/ \E r \in Requests : DispatchForward(r)
    \/ \E r \in Requests : DispatchDone(r)
    \/ \E i \in 1..NumUpstreams : Probe(i)

SpecBalancer == InitBalancer /\ [][NextBalancer]_vars

\* ------------------------------------------------------------------------
\* The HTTP surface of the store: GET /db/<key>
\* ------------------------------------------------------------------------
\* the values of the query parameter "type"; "" is the absent parameter
TypeParams == {"", "string", "int64", "float"}

\* a wrong stored type is taken for any other store error (mutant of
\* StatusOf)
StatusOfWrongTypeAsInternal(err) ==
    IF err = "nil" THEN 200
    ELSE IF err = "ErrNotFound" THEN 404
    ELSE 500

\* the status dbHandler writes for the error of db.Get / db.GetInt64
StatusOf(err) ==
    IF err = "nil" THEN 200
    ELSE IF err = "ErrNotFound" THEN 404
    ELSE IF err = "ErrWrongType" THEN 400
    ELSE 500

\* dbHandler for GET /db/<key>?type=<typeParam> with a key that is not empty
dbHandlerGet(key, typeParam) ==
    LET dataType == IF typeParam = "" THEN "string" ELSE typeParam
        answered(r) ==
            [op |-> "dbHandler", key |-> key, type |-> typeParam,
             status |-> StatusOf(r.err),
             value |-> IF r.err = "nil" THEN << r.value >> ELSE << >>]
    IN  /\ crashed = "no"
        /\ last' = IF dataType = "string" THEN answered(Get(key))
                   ELSE IF dataType = "int64" THEN answered(GetInt64(key))
                   ELSE [op |-> "dbHandler", key |-> key, type |-> typeParam,
                         status |-> 400, value |-> << >>]
        /\ UNCHANGED << storeVars, servers, requests >>

\* dbHandler for POST /db/<key>: a JSON string goes to db.Put, a JSON number
\* to db.PutInt64
HttpPost(e) == Len(history) < MaxHttpPosts /\ Accept(e)

\* POST and GET requests to the store, which may be closed meanwhile
NextHttp ==
    \/ \E k \in PutKeys, v \in StringValues : HttpPost(StringEntry(k, v))
    \/ \E k \in PutKeys, n \in IntValues : HttpPost(Int64Entry(k, n))
    \/ processPuts
    \/ CloseSignal
    \/ Close
    \/ \E k \in Keys, t \in TypeParams : dbHandlerGet(k, t)

SpecHttp == Init /\ [][NextHttp]_vars

\* ------------------------------------------------------------------------
\* A read that runs concurrently with the writer, the compaction and Close
\* ------------------------------------------------------------------------
\* the types a read asks for: Get and GetInt64
WantTypes == {DataTypeString, DataTypeInt64}

\* a write lock that does not wait for the readers (mutant of WriteLockFree)
WriteLockIgnoresReaders == TRUE

\* db.mu.Lock() can be taken: no reader holds db.mu.RLock()
WriteLockFree == reader.pc # "found"

\* Db.Get / Db.GetInt64 from db.mu.RLock() to the lookups: a call that
\* finds no entry, no handle or another type unlocks and returns; otherwise
\* it holds the read lock, the index entry and the handle segmentFile.
\* handles and file keep what the store had at that moment, for the
\* properties.
GetLookup(key, wantType) ==
    /\ crashed = "no"
    /\ reader.pc = "idle"
    /\ LET found == /\ key \in DOMAIN currentIndex
                     /\ currentIndex[key].segmentID \in DOMAIN segmentFiles
                     /\ currentIndex[key].dataType = wantType
       IN  /\ reader' = IF found
                        THEN [pc |-> "found", key |-> key, wantType |-> wantType,
                              idxVal |-> currentIndex[key],
                              handles |-> segmentFiles,
                              file |-> FileOf(disk, currentIndex[key].segmentID)]
                        ELSE NoReader
           /\ last' = IF found THEN Quiet
                      ELSE [op |-> "Get", key |-> key,
                            err |-> GetTyped(key, wantType).err]
    /\ UNCHANGED << disk, currentIndex, activeSegment, activeSegmentID,
                    segmentFiles, putCh, doneCh, isMerging, writerPc, mergePc,
                    closePc, opens, history, snapshot, crashed, codec,
                    servers, requests, closers >>

\* the state of the handle the reader holds: closed when the store has
\* closed it or dropped it from db.segmentFiles
HeldHandle ==
    IF reader.idxVal.segmentID \in DOMAIN segmentFiles
    THEN segmentFiles[reader.idxVal.segmentID] ELSE "closed"

\* the rest of Db.Get / Db.GetInt64: segmentFile.ReadAt on the handle held,
\* db.mu.RUnlock(), Decode
GetReadAt ==
    /\ crashed = "no"
    /\ reader.pc = "found"
    /\ \E rd \in {ReadAt(HeldHandle, FileOf(disk, reader.idxVal.segmentID),
                          reader.idxVal.size, reader.idxVal.offset)} :
          last' = [op |-> "Get", key |-> reader.key,
                   err |-> IF rd.err # "nil" THEN "read"
                           ELSE IF Decode(ZeroEntry, rd.data).err # "nil"
                           THEN "decode" ELSE "nil"]
    /\ reader' = NoReader
    /\ UNCHANGED << disk, currentIndex, activeSegment, activeSegmentID,
                    segmentFiles, putCh, doneCh, isMerging, writerPc, mergePc,
                    closePc, opens, history, snapshot, crashed, codec,
                    servers, requests, closers >>

\* a call of Put / PutInt64 in a behaviour with a reader
ReaderPut(e) == Len(history) < MaxReaderPuts /\ Accept(e)

\* writes, rotations, compactions that succeed or fail, and Close, each of
\* which takes db.mu.Lock() for its changes, next to a reader
NextReaders ==
    \/ \E k \in PutKeys, v \in StringValues : ReaderPut(StringEntry(k, v))
    \/ \E k \in PutKeys, n \in IntValues : ReaderPut(Int64Entry(k, n))
    \/ WriteLockFree /\ processPuts
    \/ \E m \in MergeCallers : tryMergeSegments(m)
    \/ \E m \in MergeCallers : WriteLockFree /\ Merge(m)
    \/ \E m \in MergeCallers : WriteLockFree /\ MergeFails(m)
    \/ CloseSignal
    \/ WriteLockFree /\ Close
    \/ \E k \in Keys, t \in WantTypes : GetLookup(k, t)
    \/ GetReadAt

SpecReaders == Init /\ [][NextReaders]_vars

\* ------------------------------------------------------------------------
\* The process is killed during an append
\* ------------------------------------------------------------------------
\* the numbers of bytes of a record of recordSize bytes that may have reached
\* the file when the process is killed in Write: every proper prefix
\* (PutUint32 is the 4-byte size prefix)
ProperPrefixes(recordSize) == 0..(recordSize - 1)

\* the process is killed in the iteration of processPuts that handles the
\* request at the head of the queue, after the rotation if one is due and
\* while Write appends the record: a proper prefix of the record is at the
\* end of the active segment
CrashInAppend ==
    /\ crashed = "no"
    /\ writerPc = "run"
    /\ closePc = "none"
    /\ activeSegment = "open"
    /\ opens < MaxOpens
    /\ putCh # << >>
    /\ \E req \in {Head(putCh)} :
       \E encodedEntry \in {Encode([key |-> req.key, value |-> req.value,
                                    valueInt |-> req.valueInt,
                                    dataType |-> req.dataType])} :
       \E a \in {IF NeedsRotation(Len(disk[SegName(activeSegmentID)]),
                                  Len(encodedEntry))
                  THEN setActiveSegment(disk, segmentFiles, activeSegmentID + 1)
                  ELSE [disk |-> disk, activeSegmentID |-> activeSegmentID]} :
       \E n \in ProperPrefixes(Len(encodedEntry)) :
           disk' = MapSet(a.disk, SegName(a.activeSegmentID),
                          a.disk[SegName(a.activeSegmentID)]
                              \o SubSeq(encodedEntry, 1, n))
    /\ crashed' = "append"
    /\ snapshot' = Content
    /\ last' = Quiet
    /\ UNCHANGED << currentIndex, activeSegment, activeSegmentID, segmentFiles,
                    putCh, doneCh, isMerging, writerPc, mergePc, closePc,
                    opens, history, codec, servers, requests, reader, closers >>

\* a call of Put / PutInt64 in a behaviour of SpecAppendCrash
AppendCrashPut(e) == Len(history) < MaxAppendCrashPuts /\ Accept(e)

\* writes, a kill during an append, and NewDb on the directory the killed
\* process has left
NextAppendCrash ==
    \/ \E k \in PutKeys, v \in StringValues : AppendCrashPut(StringEntry(k, v))
    \/ \E k \in PutKeys, n \in IntValues : AppendCrashPut(Int64Entry(k, n))
    \/ processPuts
    \/ CrashInAppend
    \/ NewDb

SpecAppendCrash == Init /\ [][NextAppendCrash]_vars

\* ------------------------------------------------------------------------
\* Close called by several goroutines
\* ------------------------------------------------------------------------
\* the select at the head of Db.Close: with db.doneCh closed the call goes
\* on to the sleep, otherwise it takes the default case and is about to
\* close the channel
CloseSelect(c) ==
    /\ crashed = "no"
    /\ closers[c] = "idle"
    /\ closers' = [closers EXCEPT ![c] = IF doneCh THEN "sleep" ELSE "default"]
    /\ last' = Quiet
    /\ UNCHANGED << disk, currentIndex, activeSegment, activeSegmentID,
                    segmentFiles, putCh, doneCh, isMerging, writerPc, mergePc,
                    closePc, opens, history, snapshot, crashed, codec,
                    servers, requests, reader >>

\* close(db.doneCh) in the default case; closing a channel that is closed
\* already panics
CloseChannel(c) ==
    /\ crashed = "no"
    /\ closers[c] = "default"
    /\ closers' = [closers EXCEPT ![c] = IF doneCh THEN "panic" ELSE "sleep"]
    /\ doneCh' = TRUE
    /\ closePc' = IF closePc = "none" THEN "sleep" ELSE closePc
    /\ last' = Quiet
    /\ UNCHANGED << disk, currentIndex, activeSegment, activeSegmentID,
                    segmentFiles, putCh, isMerging, writerPc, mergePc,
                    opens, history, snapshot, crashed, codec,
                    servers, requests, reader >>

\* Db.Close after the sleep: under db.mu the handles that are still open
\* are closed, and the call returns
CloseFiles(c) ==
    /\ crashed = "no"
    /\ closers[c] = "sleep"
    /\ closers' = [closers EXCEPT ![c] = "returned"]
    /\ activeSegment' = "nil"
    /\ segmentFiles' = EmptyMap
    /\ closePc' = "done"
    /\ snapshot' = IF closePc = "done" THEN snapshot ELSE Content
    /\ last' = Quiet
    /\ UNCHANGED << disk, currentIndex, activeSegmentID, putCh, doneCh,
                    isMerging, writerPc, mergePc, opens, history, crashed,
                    codec, servers, requests, reader >>

\* a call of Put / PutInt64 in a behaviour of SpecClose
ClosePut(e) == Len(history) < MaxClosePuts /\ Accept(e)

\* writes next to several calls of Close, one after another or at once
NextClose ==
    \/ \E k \in PutKeys, v \in StringValues : ClosePut(StringEntry(k, v))
    \/ \E k \in PutKeys, n \in IntValues : ClosePut(Int64Entry(k, n))
    \/ processPuts
    \/ processPutsExit
    \/ \E c \in Closers : CloseSelect(c)
    \/ \E c \in Closers : CloseChannel(c)
    \/ \E c \in Closers : CloseFiles(c)

SpecClose == Init /\ [][NextClose]_vars

\* ------------------------------------------------------------------------
\* Records of any size
\* ------------------------------------------------------------------------
\* a string value whose record (13 bytes + key + value) is larger than
\* MaxFileSize
LongValue == [i \in 1..MaxFileSize |-> 120]

\* a call of Put / PutInt64 in a behaviour of SpecAnySize
AnySizePut(e) == Len(history) < MaxAnySizePuts /\ Accept(e)

\* writes of short and of long records on a fresh store
NextAnySize ==
    \/ \E k \in PutKeys, v \in StringValues \cup {LongValue} :
           AnySizePut(StringEntry(k, v))
    \/ \E k \in PutKeys, n \in IntValues : AnySizePut(Int64Entry(k, n))
    \/ processPuts

SpecAnySize == Init /\ [][NextAnySize]_vars

\* I/O calls of the compaction may fail
NextFault == Next \/ \E m \in MergeCallers : MergeFails(m)

SpecFault == Init /\ [][NextFault]_vars

\* ------------------------------------------------------------------------
\* Vocabulary of the properties
\* ------------------------------------------------------------------------
\* the store is open: Close has not closed its files
StoreOpen == closePc # "done"

\* the calls on key k whose write was applied and answered with nil
Applied(k) == {i \in 1..Len(history) : history[i].status = "nil" /\ history[i].key = k}

\* the last write applied to k (requests are applied in the order of history)
LastWrite(k) == history[CHOOSE i \in Applied(k) : \A j \in Applied(k) : j <= i]

\* the sealed segments of the directory
SealedOnDisk == {x[2] : x \in {y \in DOMAIN disk : y[1] = "segment"}} \ {activeSegmentID}

\* a segment id below the active one has no file: a compaction deleted it
SomeSegmentDeleted == \E id \in 0..(activeSegmentID - 1) : SegName(id) \notin DOMAIN disk

\* the last step was a call of performMerge that returned nil (it may have
\* found nothing to merge)
AfterSuccessfulMerge == last.op = "performMerge" /\ last.err = "nil"

\* the last step was a successful performMerge that started with at least
\* two sealed segments
AfterCompaction == AfterSuccessfulMerge /\ Cardinality(last.sealed) >= 2

\* ------------------------------------------------------------------------
\* Properties
\* ------------------------------------------------------------------------
\* C1 (read-your-write): on the open store, for every key with an applied
\* write, Get (if the last applied write is a string) or GetInt64 (if it is
\* an int64) returns the value of that last write without error, whatever
\* rotations and compactions have happened since.
ReadYourWrite ==
    StoreOpen =>
        \A k \in Keys :
            Applied(k) # {} =>
                LET w == LastWrite(k)
                IN  IF w.dataType = DataTypeString
                    THEN Get(k) = [err |-> "nil", value |-> w.value]
                    ELSE GetInt64(k) = [err |-> "nil", value |-> w.valueInt]

\* C1 witness: a write was acknowledged, later writes rotated the active
\* segment, a compaction moved the record into the merged segment, and the
\* store is open.
ReadYourWriteWitness ==
    /\ StoreOpen
    /\ SomeSegmentDeleted
    /\ \E k \in Keys :
          /\ Applied(k) # {}
          /\ k \in DOMAIN currentIndex
          /\ currentIndex[k].segmentID # activeSegmentID
          /\ \E k2 \in Keys \ {k} : Applied(k2) # {}

\* what Get and GetInt64 have to answer for a key whose last write is w
AnswersOf(w) ==
    IF w.dataType = DataTypeString
    THEN [str |-> [err |-> "nil", value |-> w.value],
          int |-> [err |-> "ErrWrongType", value |-> 0]]
    ELSE [str |-> [err |-> "ErrWrongType", value |-> << >>],
          int |-> [err |-> "nil", value |-> w.valueInt]]

\* C2 (latest write wins): on the open store, a key that was written several
\* times (strings and int64 mixed, in any segments) answers with the type and
\* the value of the last of these writes only: the read of that type returns
\* its value, the read of the other type reports the wrong type.
LatestWriteWins ==
    StoreOpen =>
        \A k \in Keys :
            Cardinality(Applied(k)) >= 2 => Content[k] = AnswersOf(LastWrite(k))

\* C2 witness: a key was written as a string and as an int64, and its last
\* record lies in another segment than the first segment of the directory.
LatestWriteWinsWitness ==
    /\ StoreOpen
    /\ \E k \in Keys :
          /\ \E i, j \in Applied(k) : history[i].dataType # history[j].dataType
          /\ k \in DOMAIN currentIndex
          /\ currentIndex[k].segmentID > 0

\* C3 (reopen equivalence): right after NewDb on the directory of a closed
\* store, Get and GetInt64 answer for every key exactly what
\* they answered when Close closed the files.
ReopenEquivalence == (last.op = "NewDb" /\ opens > 1) => Content = last.content

\* C3 witness: a store reopened after three writes, two rotations and a
\* compaction; nothing has been written since.
ReopenEquivalenceWitness ==
    /\ last.op = "NewDb"
    /\ opens = 2
    /\ closePc = "none"
    /\ SealedOnDisk = {0, 2}
    /\ activeSegmentID = 3
    /\ disk[SegName(3)] = << >>
    /\ Cardinality(DOMAIN currentIndex) >= 2

MergePreservesContent == AfterSuccessfulMerge => Content = last.content

\* C5 witness: after a compaction, one key is read from the merged segment,
\* another key from the active segment, and a key of the merged segment had
\* an older version in a sealed segment.
MergePreservesContentWitness ==
    /\ AfterCompaction
    /\ \E k1, k2 \in DOMAIN currentIndex :
          /\ currentIndex[k1].segmentID # activeSegmentID
          /\ currentIndex[k2].segmentID = activeSegmentID
    /\ \E k \in DOMAIN currentIndex :
          /\ currentIndex[k].segmentID # activeSegmentID
          /\ Cardinality(Applied(k)) >= 2

\* the smallest id of a non-empty set of segment ids
MinId(S) == CHOOSE x \in S : \A y \in S : x <= y

ActiveUntouched ==
    last.op = "performMerge" =>
        /\ activeSegmentID = last.activeSegmentID
        /\ activeSegment = last.activeSegment
        /\ (SegName(activeSegmentID) \in DOMAIN disk)
              = (SegName(activeSegmentID) \in DOMAIN last.disk)
        /\ FileOf(disk, activeSegmentID) = FileOf(last.disk, activeSegmentID)
        /\ (activeSegmentID \in DOMAIN segmentFiles)
              = (activeSegmentID \in DOMAIN last.segmentFiles)
        /\ activeSegmentID \in DOMAIN segmentFiles
              => segmentFiles[activeSegmentID] = last.segmentFiles[activeSegmentID]
        /\ \A k \in DOMAIN last.currentIndex :
              last.currentIndex[k].segmentID = activeSegmentID
                  => k \in DOMAIN currentIndex /\ currentIndex[k] = last.currentIndex[k]

\* C7 witness: a compaction of at least two sealed segments has just failed
\* while the active segment holds a record that the index points to.
ActiveUntouchedWitness ==
    /\ last.op = "performMerge"
    /\ last.err # "nil"
    /\ Cardinality(last.sealed) >= 2
    /\ StoreOpen
    /\ FileOf(disk, activeSegmentID) # << >>
    /\ \E k \in DOMAIN currentIndex : currentIndex[k].segmentID = activeSegmentID

\* a call of performMerge in this state returns nil and changes nothing,
\* whatever the range order
MergeIsNoop ==
    \A o \in RangeOrders(KeysToMerge) :
        LET r == performMerge(o, "none")
        IN  /\ r.err = "nil"
            /\ r.disk = disk
            /\ r.currentIndex = currentIndex
            /\ r.segmentFiles = segmentFiles

\* C8 (idempotence): right after a performMerge that returned nil, a second
\* performMerge changes neither the directory nor the index nor the
\* handles; and a performMerge that started with fewer than two sealed
\* segments has changed none of them.
MergeIdempotent ==
    AfterSuccessfulMerge =>
        /\ MergeIsNoop
        /\ Cardinality(last.sealed) < 2 =>
              /\ disk = last.disk
              /\ currentIndex = last.currentIndex
              /\ segmentFiles = last.segmentFiles

\* C8 witness: the second of two compactions with no write in between has
\* just run: it started from the single merged segment (the active segment
\* is still empty) and the index has entries.
MergeIdempotentWitness ==
    /\ AfterSuccessfulMerge
    /\ Cardinality(last.sealed) = 1
    /\ SomeSegmentDeleted
    /\ StoreOpen
    /\ FileOf(disk, activeSegmentID) = << >>
    /\ Cardinality(DOMAIN currentIndex) >= 2

\* C9 (compaction gate): at most one caller of tryMergeSegments is past the
\* gate at any moment, and isMerging is set exactly while one is.
MergeGate ==
    /\ Cardinality({m \in MergeCallers : mergePc[m] = "merging"}) <= 1
    /\ isMerging = (\E m \in MergeCallers : mergePc[m] = "merging")

\* C9 witness: one caller is past the gate with two sealed segments to
\* merge while the other caller is about to try.
MergeGateWitness ==
    /\ \E m1, m2 \in MergeCallers :
          m1 # m2 /\ mergePc[m1] = "merging" /\ mergePc[m2] = "idle"
    /\ isMerging
    /\ Cardinality(SegmentsToMerge) >= 2

\* the calls that sent a request (answered with nil or still waiting)
Sent == {i \in 1..Len(history) : history[i].status \in {"nil", "pending"}}

\* C10 (concurrent writers): on the open store, every call answered with nil
\* whose key no other call writes is readable with exactly its value and
\* type, whatever the interleaving with other calls, rotations and
\* compactions.
ConcurrentWriters ==
    StoreOpen =>
        \A i \in Sent :
            (/\ history[i].status = "nil"
             /\ \A j \in Sent \ {i} : history[j].key # history[i].key)
            => Content[history[i].key] = AnswersOf(history[i])

\* C10 witness: three calls on three distinct keys have all been answered
\* with nil, the active segment was rotated and a compaction has run.
ConcurrentWritersWitness ==
    /\ StoreOpen
    /\ Len(history) = 3
    /\ \A i \in 1..3 : history[i].status = "nil"
    /\ \A i, j \in 1..3 : i # j => history[i].key # history[j].key
    /\ SomeSegmentDeleted
    /\ activeSegmentID >= opens

\* ------------------------------------------------------------------------
\* C11: FIFO write ordering
\* ------------------------------------------------------------------------
\* the calls the writer has answered
Answered == {i \in 1..Len(history) : history[i].status \in {"nil", "error"}}

\* C11: the writer applies the requests in the order in which the queue
\* accepted them: the requests on the queue wait in the order of their
\* acceptance, and no request is applied while a request accepted before
\* it is still waiting.
FifoOrder ==
    /\ \A a, b \in 1..Len(putCh) : a < b => putCh[a].errCh < putCh[b].errCh
    /\ \A i \in Pending, j \in Answered : j < i

\* C11 witness: the writer has applied the first request while the two
\* requests accepted after it wait on the queue.
FifoOrderWitness ==
    /\ Len(history) = 3
    /\ history[1].status = "nil"
    /\ Len(putCh) = 2
    /\ Pending = {2, 3}

\* ------------------------------------------------------------------------
\* C12: writes after the shutdown signal
\* ------------------------------------------------------------------------
\* the calls that started after Close had closed doneCh and were accepted
\* onto the queue all the same
AcceptedAfterDone == {i \in Pending : history[i].afterDone}

\* C12 as claimed: a call that starts after Close has signalled shutdown is
\* never applied to the store and never blocks: the writer does not
\* acknowledge it with nil, and it does not wait on the queue of a writer
\* that has returned.
ClosedAfterShutdown ==
    /\ ~(last.op = "processPuts" /\ last.afterDone /\ last.err = "nil")
    /\ writerPc = "exited" => AcceptedAfterDone = {}

\* ------------------------------------------------------------------------
\* C13: rotation policy
\* ------------------------------------------------------------------------
\* the encoded record of a history entry
RecordOf(h) ==
    Encode([key |-> h.key, value |-> h.value, valueInt |-> h.valueInt,
            dataType |-> h.dataType])

\* the step is the successful write of the call i
WriteStep(i) ==
    /\ i \in Pending
    /\ Len(history') = Len(history)
    /\ history'[i].status = "nil"

\* C13: a write of encoded size S rotates if and only if
\* active_size + S > MaxFileSize and MaxFileSize > 0.  With a rotation the
\* active id rises by exactly 1 and the record is the first of the new
\* active segment, indexed as {new id, 0, S, type}; without one the record
\* is appended to the active segment at its former size.
RotationPolicy ==
    [][\A i \in 1..Len(history) :
          WriteStep(i) =>
              LET S == Len(RecordOf(history[i]))
                  activeSize == Len(disk[SegName(activeSegmentID)])
                  rotated == activeSegmentID' # activeSegmentID
              IN  /\ rotated <=> (activeSize + S > MaxFileSize /\ MaxFileSize > 0)
                  /\ rotated =>
                        /\ activeSegmentID' = activeSegmentID + 1
                        /\ disk'[SegName(activeSegmentID')] = RecordOf(history[i])
                        /\ disk'[SegName(activeSegmentID)] = disk[SegName(activeSegmentID)]
                        /\ currentIndex'[history[i].key] =
                               [segmentID |-> activeSegmentID', offset |-> 0,
                                size |-> S, dataType |-> history[i].dataType]
                  /\ ~rotated =>
                        /\ disk'[SegName(activeSegmentID)] =
                               disk[SegName(activeSegmentID)] \o RecordOf(history[i])
                        /\ currentIndex'[history[i].key] =
                               [segmentID |-> activeSegmentID, offset |-> activeSize,
                                size |-> S, dataType |-> history[i].dataType]
    ]_vars

\* C13 witness: a segment was filled exactly (a string record and an int64
\* record, MaxFileSize bytes) without a rotation, and the next write has
\* rotated: its record is the first of the new active segment.
RotationPolicyWitness ==
    /\ activeSegmentID = 1
    /\ Len(disk[SegName(0)]) = MaxFileSize
    /\ \E k \in DOMAIN currentIndex :
          /\ currentIndex[k].segmentID = 1
          /\ currentIndex[k].offset = 0
          /\ Len(disk[SegName(1)]) = currentIndex[k].size

\* ------------------------------------------------------------------------
\* C14: segment count
\* ------------------------------------------------------------------------
\* the calls acknowledged with nil
Successful == {i \in 1..Len(history) : history[i].status = "nil"}

\* the ids of the segment files in the directory
SegmentIdsOnDisk == {x[2] : x \in {y \in DOMAIN disk : y[1] = "segment"}}

\* C14: on a freshly created store without compaction, after n >= 1
\* successful writes of records of one encoded size S, 0 < S <= MaxFileSize,
\* the active segment id is floor((n-1) / floor(MaxFileSize / S)) and the
\* segment files are exactly segment-0 .. segment-<active id>.
SegmentCount ==
    Successful # {} =>
        LET n == Cardinality(Successful)
            S == Len(RecordOf(history[1]))
        IN  (0 < S /\ S <= MaxFileSize) =>
                /\ activeSegmentID = (n - 1) \div (MaxFileSize \div S)
                /\ SegmentIdsOnDisk = 0..activeSegmentID
                /\ DOMAIN disk = {SegName(id) : id \in SegmentIdsOnDisk}

\* C14 witness: five string records, two to a segment, have been written:
\* the active segment is segment-2 and holds the fifth.
SegmentCountWitness ==
    /\ Cardinality(Successful) = 5
    /\ Pending = {}
    /\ history[1].dataType = DataTypeString
    /\ activeSegmentID = 2
    /\ SegmentIdsOnDisk = {0, 1, 2}
    /\ Len(disk[SegName(2)]) = Len(RecordOf(history[5]))

\* ------------------------------------------------------------------------
\* C15, C16: the process is killed during a compaction
\* ------------------------------------------------------------------------
\* the temp files in the directory
TmpFilesOnDisk == {x \in DOMAIN disk : x[1] = "merged.tmp"}

\* C15 as claimed: after a kill at any step of a compaction before the
\* rename (while the temp file is written, after its fsync/close, after the
\* old segment-T has been removed), NewDb on the directory succeeds, removes
\* the temp file, and every key resolves to the type and value it had before
\* the compaction started.
CrashBeforeSwapSafe ==
    (last.op = "NewDb" /\ last.after \in PreSwapPoints) =>
        /\ activeSegment = "open"
        /\ TmpFilesOnDisk = {}
        /\ Content = last.content

\* C16: after a kill between the rename and the removal of all the other
\* merged segment files, the index NewDb rebuilds resolves every key to the
\* type and value it had before the compaction started.
CrashAfterSwapSafe ==
    (last.op = "NewDb" /\ last.after \in PostSwapPoints) =>
        /\ activeSegment = "open"
        /\ Content = last.content

\* C16 witness: NewDb has run after a kill in the final loop that had
\* removed one of two files: the merged segment-0, the old segment-2 and the
\* segment that was active were scanned, and some key is readable.
CrashAfterSwapSafeWitness ==
    /\ last.op = "NewDb"
    /\ last.after = "removing"
    /\ SegmentIdsOnDisk = {0, 2, 3, 4}
    /\ activeSegmentID = 4
    /\ \E k \in Keys : Content[k].int.err = "nil"

\* C17 as claimed: when performMerge returns an error, whichever step has
\* failed, the temp file is deleted, the index is unchanged, the segment
\* files and the open read handles are as before the call, and every key
\* reads as before the call.
FailedMergeRestores ==
    (last.op = "performMerge" /\ last.err # "nil") =>
        /\ TmpFilesOnDisk = {}
        /\ currentIndex = last.currentIndex
        /\ disk = last.disk
        /\ segmentFiles = last.segmentFiles
        /\ Content = last.content

\* C18 as claimed: a failed write does not poison the writer.  On a store
\* that has not been closed, an iteration of the writer in which no file
\* operation fails is never answered with the error of a missing active
\* segment: the record is appended, indexed and acknowledged with nil,
\* whatever has failed before (also a failure while rotating).
WriteFailuresDoNotPoison ==
    closePc = "none" => ~(last.op = "processPuts" /\ last.err = "nilSegment")

\* a complete valid record: the total size, the key length and the value
\* length agree, the type is known, an int64 value has 8 bytes
ValidRecord(rec) ==
    /\ Len(rec) >= 13
    /\ Uint32(SubSeq(rec, 1, 4)) = Len(rec)
    /\ LET kl == Uint32(SubSeq(rec, 5, 8))
       IN  /\ 13 + kl <= Len(rec)
           /\ rec[9 + kl] \in {DataTypeString, DataTypeInt64}
           /\ Uint32(SubSeq(rec, 10 + kl, 13 + kl)) = Len(rec) - 13 - kl
           /\ rec[9 + kl] = DataTypeInt64 => Len(rec) - 13 - kl = 8

\* the file is an exact concatenation of complete valid records
RECURSIVE WellFormed(_)
WellFormed(file) ==
    \/ file = << >>
    \/ /\ Len(file) >= 4
       /\ Uint32(SubSeq(file, 1, 4)) \in 5..Len(file)
       /\ ValidRecord(SubSeq(file, 1, Uint32(SubSeq(file, 1, 4))))
       /\ WellFormed(SubSeq(file, Uint32(SubSeq(file, 1, 4)) + 1, Len(file)))

\* C19 as claimed: corruption fails open.  When NewDb has returned a store,
\* every segment file of the directory is an exact concatenation of
\* complete valid records; that is, with any file that is not (truncated
\* size prefix, size prefix without body, truncated body, total_size <= 4,
\* unknown type, inconsistent lengths) NewDb returns an error.  NewDb does
\* not change the content of the files it scans.
CorruptionFailsOpen ==
    (last.op = "NewDb" /\ last.err = "nil") =>
        \A name \in DOMAIN disk : WellFormed(disk[name])

\* the two entries have the same key, type and value
SameRecord(a, b) ==
    /\ a.key = b.key
    /\ a.dataType = b.dataType
    /\ IF b.dataType = DataTypeString THEN a.value = b.value
       ELSE a.valueInt = b.valueInt

\* C20: codec round trip.  For every record of type STRING or INT64, also
\* with the empty key, Decode(Encode(r)) succeeds and yields the key, type
\* and value of r; DecodeFromReader over Encode(r) succeeds, yields the same
\* record, reports len(Encode(r)) bytes and leaves the reader at the end of
\* its input.
CodecRoundTrip ==
    /\ codec.phase = "decoded" =>
           /\ codec.err = "nil"
           /\ SameRecord(codec.decodedEntry, codec.e)
    /\ codec.phase = "read" =>
           /\ codec.err = "nil"
           /\ SameRecord(codec.decodedEntry, codec.e)
           /\ codec.bytesRead = Len(codec.encoded)
           /\ codec.unread = << >>

\* C20 witness: a negative int64 under the empty key has been encoded and
\* read back with DecodeFromReader.
CodecRoundTripWitness ==
    /\ codec.phase = "read"
    /\ codec.e.key = << >>
    /\ codec.e.dataType = DataTypeInt64
    /\ codec.e.valueInt < 0
    /\ codec.decodedEntry.valueInt = codec.e.valueInt

\* C21 as claimed: DecodeFromReader returns the clean end-of-stream signal
\* (an error that is io.EOF for the caller) when and only when the stream
\* had no byte before the size prefix; a stream that ends inside the size
\* prefix or inside the body, also right after the size prefix, gives an
\* error the caller can tell from the clean end.
CleanEndOnlyOnEmptyStream ==
    codec.phase = "read" => (IsEOF(codec.err) <=> codec.in = << >>)

\* the input ends before the field or the bytes Decode needs next
TooShort(in) ==
    \/ Len(in) < 8
    \/ LET kl == Uint32(SubSeq(in, 5, 8))
       IN  \/ Len(in) < 8 + kl + 1 + 4
           \/ Len(in) < 8 + kl + 1 + 4
                             + Uint32(SubSeq(in, 8 + kl + 2, 8 + kl + 5))

\* the total_size field of the input is at most 4
TotalSizeTooSmall(in) == Len(in) >= 4 /\ Uint32(SubSeq(in, 1, 4)) <= 4

\* the type of the input is INT64 and its val_len is not 8
Int64LengthWrong(in) ==
    /\ ~TooShort(in)
    /\ LET kl == Uint32(SubSeq(in, 5, 8))
       IN  /\ in[8 + kl + 1] = DataTypeInt64
           /\ Uint32(SubSeq(in, 8 + kl + 2, 8 + kl + 5)) # 8

\* C22 as claimed: Decode returns an error whenever the input is shorter
\* than required at some step, whenever its total_size field is at most 4,
\* and whenever its type is INT64 with val_len other than 8; it returns nil
\* only for inputs that pass the three checks.
DecodeValidates ==
    (codec.phase = "decoded"
         /\ (TooShort(codec.in) \/ TotalSizeTooSmall(codec.in)
                \/ Int64LengthWrong(codec.in))) =>
        codec.err # "nil"

\* the total_size field of an encoded record
TotalSizeField(encoded) == Uint32(SubSeq(encoded, 1, 4))

\* the lengths of the key and of the value of an entry, in bytes
KeyLen(e) == Len(e.key)
ValLen(e) == IF e.dataType = DataTypeInt64 THEN 8 ELSE Len(e.value)

\* C23 as claimed: for every record Encode produces, total_size equals the
\* length of the encoded bytes and equals 17 + key_len + val_len (val_len is
\* 8 for INT64), and total_size > 4.
TotalSizeIs17PlusLengths ==
    codec.phase = "encoded" =>
        /\ TotalSizeField(codec.encoded) = Len(codec.encoded)
        /\ TotalSizeField(codec.encoded) = 17 + KeyLen(codec.e) + ValLen(codec.e)
        /\ TotalSizeField(codec.encoded) > 4

\* C23 amended: for every record Encode produces, total_size equals the
\* length of the encoded bytes and equals 13 + key_len + val_len (4 bytes
\* each for total_size, key_len and val_len, 1 byte for the type; val_len is
\* 8 for INT64), and total_size > 4.
TotalSizeIs13PlusLengths ==
    codec.phase = "encoded" =>
        /\ TotalSizeField(codec.encoded) = Len(codec.encoded)
        /\ TotalSizeField(codec.encoded) = 13 + KeyLen(codec.e) + ValLen(codec.e)
        /\ TotalSizeField(codec.encoded) > 4

\* C23 witness: an INT64 record with a two-byte key has been encoded; its
\* 23 bytes carry total_size 23.
TotalSizeWitness ==
    /\ codec.phase = "encoded"
    /\ codec.e.dataType = DataTypeInt64
    /\ Len(codec.e.key) = 2
    /\ TotalSizeField(codec.encoded) = 23

\* the ids of the segment files of the directory d
SegmentIdsIn(d) == {x[2] : x \in {y \in DOMAIN d : y[1] = "segment"}}

\* the postcondition of NewDb on the directory before, in the state after
OpenPostcondition(before) ==
    LET found == SegmentIdsIn(before)
    IN  /\ \A id \in found : activeSegmentID' > id
        /\ found # {} => activeSegmentID' - 1 \in found
        /\ found = {} => activeSegmentID' = 0
        /\ SegName(activeSegmentID') \in DOMAIN disk'
        /\ disk'[SegName(activeSegmentID')] = << >>
        /\ activeSegment' = "open"
        /\ \A id \in found :
               /\ SegName(id) \in DOMAIN disk'
               /\ disk'[SegName(id)] = before[SegName(id)]
               /\ id \in DOMAIN segmentFiles'
               /\ segmentFiles'[id] = "open"

\* C24: open postcondition.  NewDb that returns a store sets the active
\* segment id to one more than the largest segment id found in the
\* directory (0 when there is none, as for the first NewDb on the empty
\* directory), creates that segment as an empty file, and leaves every
\* segment file it found unchanged, byte for byte, as a sealed segment with
\* an open read handle.
OpenPost ==
    /\ (activeSegmentID = 0 /\ disk = (SegName(0) :> << >>))
    /\ [][(last'.op = "NewDb" /\ last'.err = "nil") => OpenPostcondition(disk)]_vars

\* C24 witness: NewDb has found segment-0 and segment-1 with records in
\* them and has created the empty segment-2 as the active one.
OpenPostWitness ==
    /\ last.op = "NewDb"
    /\ last.err = "nil"
    /\ activeSegmentID = 2
    /\ SegmentIdsIn(disk) = {0, 1, 2}
    /\ disk[SegName(0)] # << >>
    /\ disk[SegName(1)] # << >>
    /\ disk[SegName(2)] = << >>

\* the positions of the healthy servers
Healthy == {i \in 1..Len(servers) : servers[i].IsHealthy}

\* C25: least-connections selection.  The selection returns none when the
\* list is empty or no server is healthy; otherwise it returns a healthy
\* server whose ActiveConns is minimal among the healthy ones, and the first
\* such server in the order of the list; an unhealthy server is never
\* returned, whatever its count.  The result depends on the list only.
LeastConnections ==
    last.op = "selectLeastLoadedServer" =>
        IF Healthy = {} THEN last.selected = 0
        ELSE /\ last.selected \in Healthy
             /\ \A j \in Healthy :
                    /\ servers[last.selected].ActiveConns <= servers[j].ActiveConns
                    /\ j < last.selected =>
                           servers[last.selected].ActiveConns < servers[j].ActiveConns

\* C25 witness: the list {unhealthy/10, healthy/5, unhealthy/0} of the test
\* "one healthy server among unhealthy ones": the second server is selected.
LeastConnectionsWitness ==
    /\ last.op = "selectLeastLoadedServer"
    /\ servers = << Server(FALSE, 10), Server(TRUE, 5), Server(FALSE, 0) >>
    /\ last.selected = 2

\* the requests in flight to server i: forwarded and not yet answered
InFlight(i) == {r \in Requests : requests[r].pc = "forwarding"
                                     /\ requests[r].server = i}

\* C26: active-connection accounting.  At every moment the ActiveConns of
\* each server equals the number of requests in flight to it (incremented
\* once before forwarding, decremented once when the response is written or
\* the request has failed), is never negative and is 0 when no request is in
\* flight; a request answered with 503 changes no counter.
ConnAccounting ==
    /\ \A i \in 1..Len(servers) :
           /\ servers[i].ActiveConns = Cardinality(InFlight(i))
           /\ servers[i].ActiveConns >= 0
    /\ last.op = "503" => servers = last.servers

\* C26 witness: two requests are in flight to one server and one to the
\* other, and the counters are 2 and 1.
ConnAccountingWitness ==
    /\ Len(servers) = 2
    /\ Cardinality(InFlight(1)) = 2
    /\ Cardinality(InFlight(2)) = 1
    /\ servers[1].ActiveConns = 2
    /\ servers[2].ActiveConns = 1

\* C27: health probing.  After each probe the flag of the probed server is
\* true exactly when GET /health returned 200, false for any other status
\* and for a transport error; a selection never returns a server whose flag
\* is false, so a server marked unhealthy is not selected until a probe
\* with 200 has set the flag again, and is eligible from then on.
HealthProbing ==
    /\ last.op = "probe" =>
           (servers[last.server].IsHealthy <=> last.outcome = "200")
    /\ last.op = "select" => last.wasHealthy
    /\ (last.op = "503" /\ Len(servers) > 0) =>
           \A i \in 1..Len(servers) : ~servers[i].IsHealthy

\* C27 witness: a server that was unhealthy has been probed with 200, is
\* healthy again, and the other server is still unhealthy: the next
\* selection returns it.
HealthProbingWitness ==
    /\ last.op = "probe"
    /\ last.outcome = "200"
    /\ ~last.wasHealthy
    /\ servers[last.server].IsHealthy
    /\ \A i \in 1..Len(servers) : i # last.server => ~servers[i].IsHealthy
    /\ selectLeastLoadedServer(servers) = last.server

\* what the store answers to the read a GET with the type parameter asks for
StoreOutcome(key, typeParam) ==
    IF typeParam = "int64" THEN GetInt64(key) ELSE Get(key)

\* C28: GET /db/<key> maps the outcome of the store to the status: 400 when
\* the type parameter is neither string nor int64; otherwise 200 with the
\* value when the read succeeds, 404 when the key is not found, 400 when
\* the stored type differs from the requested one (the type defaults to
\* string, so a key stored from a JSON number gives 400 without
\* type=int64), and 500 for any other error of the store.
GetStatusMapping ==
    last.op = "dbHandler" =>
        IF last.type \notin {"", "string", "int64"} THEN last.status = 400
        ELSE LET r == StoreOutcome(last.key, last.type)
             IN  /\ r.err = "nil" =>
                        last.status = 200 /\ last.value = << r.value >>
                 /\ r.err = "ErrNotFound" => last.status = 404
                 /\ r.err = "ErrWrongType" => last.status = 400
                 /\ r.err \notin {"nil", "ErrNotFound", "ErrWrongType"} =>
                        last.status = 500
                 /\ (last.type = "" /\ StoreOpen
                        /\ last.key \in DOMAIN currentIndex
                        /\ currentIndex[last.key].dataType = DataTypeInt64) =>
                        last.status = 400

\* C28 witness: a key stored from a JSON number is read without the type
\* parameter and the answer is 400.
GetStatusMappingWitness ==
    /\ last.op = "dbHandler"
    /\ last.type = ""
    /\ last.status = 400
    /\ \E i \in 1..Len(history) :
           /\ history[i].key = last.key
           /\ history[i].status = "nil"
           /\ history[i].dataType = DataTypeInt64

\* the bytes an index entry names in the file of its segment
BytesOf(idxVal) ==
    SubSeq(FileOf(disk, idxVal.segmentID), idxVal.offset + 1,
           idxVal.offset + idxVal.size)

\* the entry of key k is valid: its segment has an open read handle, its
\* byte range lies within the file of the segment, and the bytes decode to
\* a record of key k and of the type of the entry
ValidEntry(k) ==
    LET idxVal == currentIndex[k]
        matches(d) ==
            d.err = "nil" /\ d.e.key = k /\ d.e.dataType = idxVal.dataType
    IN  /\ idxVal.segmentID \in DOMAIN segmentFiles
        /\ segmentFiles[idxVal.segmentID] = "open"
        /\ idxVal.offset >= 0
        /\ idxVal.offset + idxVal.size <= Len(FileOf(disk, idxVal.segmentID))
        /\ matches(Decode(ZeroEntry, BytesOf(idxVal)))

\* C29 as claimed: in every reachable state of an open store, after any
\* sequence of writes, rotations and compactions, every index entry names a
\* segment with an open read handle, its offset + size lies within the file
\* of that segment, and the bytes there decode to a record whose key is the
\* index key and whose type is the type of the entry.
IndexValid == StoreOpen => \A k \in DOMAIN currentIndex : ValidEntry(k)

\* the byte ranges of two index entries do not overlap
Disjoint(a, b) ==
    a.offset + a.size <= b.offset \/ b.offset + b.size <= a.offset

\* C30: in every reachable state no two distinct keys have index entries
\* with the same (segment id, offset) pair, and the byte ranges of the
\* index entries in one segment never overlap.
LocationsUnique ==
    \A k1, k2 \in DOMAIN currentIndex :
        (k1 # k2 /\ currentIndex[k1].segmentID = currentIndex[k2].segmentID) =>
            /\ currentIndex[k1].offset # currentIndex[k2].offset
            /\ Disjoint(currentIndex[k1], currentIndex[k2])

\* C30 witness: a compaction of several sealed segments has just put the
\* records of two distinct keys, which lay in different segments before,
\* next to each other in the merged segment.
LocationsUniqueWitness ==
    /\ AfterCompaction
    /\ \E k1, k2 \in DOMAIN currentIndex :
           /\ k1 # k2
           /\ currentIndex[k1].segmentID = currentIndex[k2].segmentID
           /\ currentIndex[k1].segmentID # activeSegmentID
           /\ last.currentIndex[k1].segmentID # last.currentIndex[k2].segmentID
           /\ currentIndex[k2].offset = currentIndex[k1].offset + currentIndex[k1].size

\* the ids of the segments the store knows or the directory holds, other
\* than the active one
SealedIds == (SegmentIdsOnDisk \cup DOMAIN segmentFiles) \ {activeSegmentID}

\* C31 as claimed: in every reachable state of an open store exactly one
\* segment is active (the store holds a write handle, and the file and the
\* read handle of that segment exist) and its id is strictly greater than
\* the id of every sealed segment, also after a rotation, after a
\* compaction and after close and reopen.
SegmentIdInvariant ==
    StoreOpen =>
        /\ activeSegment = "open"
        /\ SegName(activeSegmentID) \in DOMAIN disk
        /\ activeSegmentID \in DOMAIN segmentFiles
        /\ \A id \in SealedIds : id < activeSegmentID

\* the keys whose index entry lay in a sealed segment when the compaction
\* that has just returned started
LiveBefore ==
    {k \in DOMAIN last.currentIndex :
        last.currentIndex[k].segmentID \in last.sealed}

\* the bytes of the latest record of key k before the compaction
LatestRecordBefore(k) ==
    SubSeq(last.disk[SegName(last.currentIndex[k].segmentID)],
           last.currentIndex[k].offset + 1,
           last.currentIndex[k].offset + last.currentIndex[k].size)

\* the sum of the record sizes of the index entries of the keys in S
RECURSIVE SumOfSizes(_, _)
SumOfSizes(index, S) ==
    IF S = {} THEN 0
    ELSE LET k == CHOOSE x \in S : TRUE
         IN  index[k].size + SumOfSizes(index, S \ {k})

\* C32: after a compaction, the merged segment-T holds exactly one record
\* for each key whose index entry pointed into a sealed segment when the
\* compaction started, namely the bytes of that latest record: the records
\* of these keys lie in segment-T at pairwise disjoint places, and the size
\* of the file is the sum of their sizes, so that it holds nothing else (no
\* superseded version, no record of a key whose latest write is in the
\* active segment).
MergedHoldsLiveOnly ==
    AfterCompaction =>
        LET T == MinId(last.sealed)
            merged == disk[SegName(T)]
        IN  /\ Len(merged) = SumOfSizes(last.currentIndex, LiveBefore)
            /\ \A k \in LiveBefore :
                  /\ currentIndex[k].segmentID = T
                  /\ currentIndex[k].offset + currentIndex[k].size <= Len(merged)
                  /\ BytesOf(currentIndex[k]) = LatestRecordBefore(k)
            /\ \A k1, k2 \in LiveBefore :
                  k1 # k2 => Disjoint(currentIndex[k1], currentIndex[k2])
            /\ \A k \in DOMAIN last.currentIndex \ LiveBefore :
                  currentIndex[k] = last.currentIndex[k]

\* C32 witness: the compaction dropped a superseded record (the sealed
\* segments held more bytes than the merged one does) and left out a key
\* whose latest write is in the active segment.
MergedHoldsLiveOnlyWitness ==
    /\ AfterCompaction
    /\ LiveBefore # {}
    /\ \E id \in last.sealed :
          Len(last.disk[SegName(id)]) > 0
          /\ \A k \in LiveBefore : last.currentIndex[k].segmentID # id
    /\ \E k \in DOMAIN last.currentIndex :
          last.currentIndex[k].segmentID = last.activeSegmentID

\* what a read of key k resolves to with the index, the read handles and
\* the directory given: the index entry, the state of the handle of its
\* segment and the bytes of the file at the place the entry names (Get and
\* GetInt64 depend on nothing else)
ResolvesTo(index, files, d, k) ==
    IF k \notin DOMAIN index THEN << "absent" >>
    ELSE LET idxVal == index[k]
             file == FileOf(d, idxVal.segmentID)
         IN  << idxVal,
                IF idxVal.segmentID \in DOMAIN files
                THEN files[idxVal.segmentID] ELSE "none",
                IF idxVal.offset + idxVal.size <= Len(file)
                THEN SubSeq(file, idxVal.offset + 1, idxVal.offset + idxVal.size)
                ELSE << >> >>

\* the step is an iteration of the writer that answers its request with an
\* error
AnswersWithError == last'.op = "processPuts" /\ last'.err # "nil"

\* C33: a failed write changes nothing a reader can see.  In every step
\* that answers a write request with an error the index stays exactly as it
\* was, and every key (the one being written included) resolves to what it
\* resolved to before.
FailedWriteInvisible ==
    [][AnswersWithError =>
          /\ currentIndex' = currentIndex
          /\ \A k \in Keys :
                ResolvesTo(currentIndex', segmentFiles', disk', k)
                    = ResolvesTo(currentIndex, segmentFiles, disk, k)]_vars

\* C33 witness: a Write has failed after it appended a part of the record:
\* the active segment ends with bytes no index entry names, while a key
\* written before is still readable.
FailedWriteInvisibleWitness ==
    /\ last.op = "processPuts"
    /\ last.err = "write"
    /\ \E k \in DOMAIN currentIndex :
          /\ currentIndex[k].segmentID = activeSegmentID
          /\ currentIndex[k].offset + currentIndex[k].size
                 < Len(disk[SegName(activeSegmentID)])
          /\ \A k2 \in DOMAIN currentIndex :
                currentIndex[k2].segmentID = activeSegmentID =>
                    currentIndex[k2].offset <= currentIndex[k].offset
          /\ (Get(k).err = "nil" \/ GetInt64(k).err = "nil")

\* nothing has happened to the handles and to the file of the reader's
\* segment since the lookup: no handle the store had then has been closed
\* or dropped, and the file still starts with the bytes it had (the writer
\* may have appended to it)
UnchangedSinceLookup ==
    /\ \A id \in DOMAIN reader.handles :
          id \in DOMAIN segmentFiles /\ segmentFiles[id] = reader.handles[id]
    /\ Len(reader.file) <= Len(FileOf(disk, reader.idxVal.segmentID))
    /\ SubSeq(FileOf(disk, reader.idxVal.segmentID), 1, Len(reader.file))
           = reader.file

\* C34: readers never race with the closure of a handle.  Whenever a
\* Get/GetInt64 that runs concurrently with a compaction (one that succeeds
\* or fails), a rotation or Close has looked up its handle and is about to
\* do its positional read, nothing has closed that handle or deleted or
\* replaced its file since the lookup: lookup and read are under the read
\* lock, every change of the handle map, every close of a handle and every
\* removal of a file under the write lock.
ReadersDoNotRace == reader.pc = "found" => UnchangedSinceLookup

\* C34 witness: a reader holds the open handle of a sealed segment while a
\* compaction that will close it has passed the gate and waits for the
\* lock, and Close has signalled the shutdown.
ReadersDoNotRaceWitness ==
    /\ reader.pc = "found"
    /\ HeldHandle = "open"
    /\ reader.idxVal.segmentID \in SegmentsToMerge
    /\ Cardinality(SegmentsToMerge) >= 2
    /\ \E m \in MergeCallers : mergePc[m] = "merging"
    /\ closePc = "sleep"

\* the segment files that are sealed in the state before a step
SealedFiles == {SegName(id) : id \in SegmentIdsOnDisk \ {activeSegmentID}}

\* file f starts with the bytes of file g
StartsWith(f, g) == Len(g) <= Len(f) /\ SubSeq(f, 1, Len(g)) = g

\* C35: sealed segments are immutable outside compaction.  In every step
\* the file of a sealed segment (sealed by a rotation or found at open)
\* stays as it is, byte for byte, unless the step is a performMerge, and
\* the file of the active segment is only appended to: no write request
\* changes, truncates or deletes a sealed file.
SealedImmutable ==
    [][/\ \A name \in SealedFiles :
             (name \notin DOMAIN disk' \/ disk'[name] # disk[name])
                 => last'.op = "performMerge"
       /\ SegName(activeSegmentID) \in DOMAIN disk =>
             /\ SegName(activeSegmentID) \in DOMAIN disk'
             /\ StartsWith(disk'[SegName(activeSegmentID)],
                           disk[SegName(activeSegmentID)])]_vars

\* C35 witness: a rotation has sealed a segment with a record, a later
\* write went into the new active segment, and no compaction has removed
\* anything.
SealedImmutableWitness ==
    /\ activeSegmentID >= 1
    /\ SegName(activeSegmentID - 1) \in DOMAIN disk
    /\ Len(disk[SegName(activeSegmentID - 1)]) > 0
    /\ Len(disk[SegName(activeSegmentID)]) > 0
    /\ ~SomeSegmentDeleted
    /\ last.op # "performMerge"
    /\ opens = 1

\* C36 as claimed: every Put/PutInt64 call eventually returns, also a call
\* that is concurrent with Close and a call whose request still waits in
\* the queue when the shutdown is signalled.  Only the writer answers a
\* request that is on the queue, so a caller is blocked for ever once the
\* writer has returned while the caller waits for its reply; the claim
\* says that this never happens.
NoCallerStranded == writerPc = "exited" => Pending = {}

\* C37: after Close has returned, the store no longer modifies the
\* directory.  In every step taken while the store is closed (a writer
\* iteration that still picks up a queued request, a compaction that still
\* fires, a late Put) no segment file is appended to, created, renamed or
\* deleted, and the index does not change.
ClosedStoreIsQuiet ==
    [][(closePc = "done" /\ closePc' = "done") =>
          (disk' = disk /\ currentIndex' = currentIndex)]_vars

\* C37 witness: on a closed store with three segment files a writer
\* iteration has picked up a queued request and answered it with an error,
\* and a performMerge has just run.
ClosedStoreIsQuietWitness ==
    /\ closePc = "done"
    /\ last.op = "performMerge"
    /\ Cardinality(SegmentIdsOnDisk) >= 3
    /\ \E i \in 1..Len(history) : history[i].status = "error"

\* C38 as claimed: a crash during an append is recoverable.  When the
\* process is killed while a record is appended, whatever proper prefix of
\* the record is left at the end of the active segment, NewDb on the
\* directory succeeds and every write acknowledged before the kill reads
\* with its value.
AppendCrashRecoverable ==
    (last.op = "NewDb" /\ last.after = "append") =>
        /\ last.err = "nil"
        /\ Content = last.content

\* C39 as claimed: Close may be called more than once, one call after
\* another or from several goroutines at once, without a panic: the
\* shutdown channel is closed exactly once, so no call ever closes the
\* channel when it is closed already.
CloseIsIdempotent == \A c \in Closers : closers[c] # "panic"

\* C40 as claimed: with MaxFileSize > 0, after any sequence of writes of
\* records of any size the file of the active segment is never larger than
\* MaxFileSize, and a rotation never seals an empty segment (on a store
\* that only writes, every segment below the active one was sealed by a
\* rotation).
ActiveSizeBound ==
    MaxFileSize > 0 =>
        /\ Len(disk[SegName(activeSegmentID)]) <= MaxFileSize
        /\ \A id \in SegmentIdsOnDisk :
              id < activeSegmentID => Len(disk[SegName(id)]) > 0

====
